---- MODULE Spec2Model ----
(***************************************************************************)
(* Streaming anomaly-detection engine of src/src/detection_anomalies.py:   *)
(* class DetecteurAnomalies (sliding window, running statistics, z-score   *)
(* detector, Isolation Forest detector, verdict combiner, ledger, MongoDB  *)
(* sink).                                                                  *)
(*                                                                         *)
(* Numbers.  Readings carry integer temperatures and humidities.  Means    *)
(* and standard deviations are kept exactly, as rationals: a number is a   *)
(* record [nan, num, den]; a standard deviation s is held by its square    *)
(* s^2 (the sample variance) and a z-score z by its sign and its square,   *)
(* so that s = 0, z = 0 and |z| > seuil are decided exactly.               *)
(***************************************************************************)
EXTENDS Integers, Sequences, FiniteSets, TLC

(***************************************************************************)
(* Bounds of the model.                                                    *)
(***************************************************************************)
\* longest stream of ajouter_donnee calls explored
MaxMesures == 20
\* at most this many non-nominal events in a stream: a reading that is off
\* the baseline, a reading with a missing field, a failing MongoDB insert
MaxPerturbations == 1
\* the small window capacity explored next to the configured one
PetiteFenetre == 3
\* calls made to the cloud services in one run
MaxAppelsCloud == 2
\* ajouter_donnee calls in a run that also exports
MaxMesuresExport == 11
\* ajouter_donnee calls in a run where a reading may come twice
MaxMesuresRejeu == 8
\* messages the MQTT receiver is handed in a run, and how many of them, past
\* the z-score warm-up, are not baseline readings with a working sink
MaxMessages == 12
MaxPerturbationsRecues == 2
\* readings handed to a pair of detectors once their windows are full
MaxEvictions == 2
\* messages handed to on_message in a run that looks at whole calls, and
\* how many of them are not baseline readings handled without failure
MaxMessagesEntiers == 21
MaxPannesMessages == 1
\* readings a window holds when one more reading is handed in to be scored
MaxDejaVues == 10
\* rows of anomalies the dashboard loads
MaxLignes == 6
\* calls made to the storage and alert sinks directly in a run
MaxAppelsPuits == 3

(***************************************************************************)
(* Program constants.                                                      *)
(***************************************************************************)
\* ia_config.fenetre_analyse
fenetre_analyse == 100

\* mutant: a threshold of 4
zscore_seuil_Haut == 3 + 1

\* ia_config.zscore_seuil
zscore_seuil == 3
\* mutants: a warm-up that ends too early
ZscoreMin_Tot == 2 + 3
IForestMin_Tot == 2 * 5
\* warm-up of detecter_zscore: stats["count"] < 10
ZscoreMin == 10
\* warm-up of detecter_isolation_forest: len(buffer_donnees) < 20
IForestMin == 20
\* cloud_config.seuil_temperature_haute and seuil_temperature_basse
seuil_temperature_haute == 35
seuil_temperature_basse == 10
\* dashboard.afficher_alertes: temp > 35, temp < 15
alerte_surchauffe == 35
alerte_sous_temperature == 15
\* cloud_config.seuil_humidite_haute
seuil_humidite_haute == 80
\* generer_graphique: len(self.historique) < 5
GraphiqueMin == 5
\* on_message: compteur_messages % 10, compteur_messages % 30
SauvegardeTous == 10
GraphiqueTous == 30

(***************************************************************************)
(* Inputs.                                                                 *)
(***************************************************************************)
\* capteur_config.temperature_moyenne and humidite_moyenne: the baseline
temperature_moyenne == 25
humidite_moyenne == 40
\* the readings off the baseline, as <<temperature, humidity>>: an excess of
\* temperature, an excess of humidity
Ecarts ==
    {<<temperature_moyenne + 16, humidite_moyenne>>,
     <<temperature_moyenne, humidite_moyenne + 10>>}
Champs == {"temperature", "humidity"}

\* A reading is a dict: `champs` is the set of numeric keys it holds; the
\* value of a key it does not hold is never read (kept at 0).
Mesure(k, t, h) ==
    [sensor_id |-> "C001", timestamp |-> k, champs |-> Champs,
     temperature |-> t, humidity |-> h]

MesureSans(k, champ) ==
    [sensor_id |-> "C001", timestamp |-> k, champs |-> Champs \ {champ},
     temperature |-> IF champ = "temperature" THEN 0 ELSE temperature_moyenne,
     humidity |-> IF champ = "humidity" THEN 0 ELSE humidite_moyenne]

Nominale(d) ==
    d.champs = Champs /\ d.temperature = temperature_moyenne /\ d.humidity = humidite_moyenne

(***************************************************************************)
(* Exact numbers.                                                          *)
(***************************************************************************)
Rat(n, d) == [nan |-> FALSE, num |-> n, den |-> d]
NaN == [nan |-> TRUE, num |-> 0, den |-> 1]
Zero == Rat(0, 1)
\* x == 0 (false of NaN)
EstZero(x) == ~x.nan /\ x.num = 0

\* df[champ] of pd.DataFrame(list(buffer)), by what mean() and std() read of
\* it: over the rows 1..i that hold the key (the other rows are NaN and are
\* skipped), their number, their sum and the sum of their squares
RECURSIVE Colonne(_, _, _)
Colonne(buf, champ, i) ==
    IF i = 0 THEN [n |-> 0, somme |-> 0, carres |-> 0]
    ELSE LET reste == Colonne(buf, champ, i - 1)
             v == buf[i][champ]
         IN  IF champ \in buf[i].champs
             THEN [n |-> reste.n + 1, somme |-> reste.somme + v,
                   carres |-> reste.carres + v * v]
             ELSE reste

\* Series.mean(), NaN skipped
Moyenne(col) == Rat(col.somme, col.n)

\* mutant: the deviation of the population (ddof = 0)
EcartType_Population(col) ==
    IF col.n < 2 THEN NaN
    ELSE Rat(col.n * col.carres - col.somme * col.somme, col.n * col.n)

\* Series.std() (ddof = 1, NaN skipped), held by its square; NaN when fewer
\* than two values are left
EcartType(col) ==
    IF col.n < 2 THEN NaN
    ELSE Rat(col.n * col.carres - col.somme * col.somme, col.n * (col.n - 1))

(***************************************************************************)
(* State.                                                                  *)
(***************************************************************************)
VARIABLES
    buffer_taille,     \* self.buffer_taille, capacity of the deque
    buffer_donnees,    \* self.buffer_donnees
    historique,        \* self.historique
    anomalies,         \* self.anomalies
    model,             \* self.model
    stats,             \* self.stats
    mongodb_db,        \* self.mongodb_db: "None" or "db"
    collection,        \* documents the MongoDB collection has received
    dernier,           \* the last ajouter_donnee call: its input and its outcome
    flux,              \* every ajouter_donnee call so far: input, exception, sink
    nb_appels,         \* ajouter_donnee calls made so far
    nb_perturbations,  \* non-nominal events so far
    horizon,           \* longest stream of calls the run explores
    fichiers,          \* data/historique.csv, data/anomalies.csv and the graph
    recepteur,         \* RecepteurMQTT: its counter, its client, the call in progress
    jumeau,            \* a second DetecteurAnomalies, fed a related stream
    cloud,             \* CloudManager and EmailService: what their sinks were handed
    dashboard          \* the dashboard: the anomalies it loaded, the alerts it shows

vars == <<buffer_taille, buffer_donnees, historique, anomalies, model, stats,
          mongodb_db, collection, dernier, flux, nb_appels, nb_perturbations,
          horizon, dashboard, fichiers, recepteur, jumeau, cloud>>

\* the detector's fields and the record of its calls
detecteur == <<buffer_taille, buffer_donnees, historique, anomalies, model, stats,
               mongodb_db, collection, dernier, flux, nb_appels>>

StatsInit ==
    [count |-> 0, mean_temp |-> Zero, std_temp |-> Zero,
     mean_hum |-> Zero, std_hum |-> Zero]

ModelNone == [etat |-> "None", X |-> <<>>]

(***************************************************************************)
(* Detection methods.                                                      *)
(***************************************************************************)
\* The z-score (valeur - moyenne) / ecart_type, by its sign and square:
\* z^2 = (valeur - m)^2 / s^2 with m = moyenne and s^2 held by ecart_type.
Quotient(valeur, moyenne, ecart_type) ==
    IF ecart_type.nan \/ moyenne.nan
    THEN [nan |-> TRUE, signe |-> 0, num |-> 0, den |-> 1]
    ELSE LET ecart == valeur * moyenne.den - moyenne.num
         IN  [nan |-> FALSE,
              signe |-> IF ecart > 0 THEN 1 ELSE IF ecart < 0 THEN 0 - 1 ELSE 0,
              num |-> ecart * ecart * ecart_type.den,
              den |-> moyenne.den * moyenne.den * ecart_type.num]

ZNul == [nan |-> FALSE, signe |-> 0, num |-> 0, den |-> 1]

\* mutant: no guard on a zero deviation
calculer_zscore_SansGarde(valeur, moyenne, ecart_type) ==
    Quotient(valeur, moyenne, ecart_type)

calculer_zscore(valeur, moyenne, ecart_type) ==
    IF EstZero(ecart_type) THEN ZNul
    ELSE Quotient(valeur, moyenne, ecart_type)

\* mutant: abs(z) >= seuil
AbsSuperieur_OuEgal(z, seuil) == ~z.nan /\ z.num >= seuil * seuil * z.den

\* abs(z) > seuil; false when z is NaN
AbsSuperieur(z, seuil) == ~z.nan /\ z.num > seuil * seuil * z.den

Insuffisant(methode) ==
    [is_anomaly |-> FALSE, method |-> methode, details |-> "Données insuffisantes",
     z_temperature |-> ZNul, z_humidity |-> ZNul]

\* z_temperature and z_humidity are reported unrounded; the verdict is
\* taken on the unrounded values, as in the code.
detecter_zscore(st, temperature, humidite) ==
    IF st.count < ZscoreMin THEN Insuffisant("zscore")
    ELSE LET z_temp == calculer_zscore(temperature, st.mean_temp, st.std_temp)
             z_hum == calculer_zscore(humidite, st.mean_hum, st.std_hum)
         IN  [is_anomaly |-> AbsSuperieur(z_temp, zscore_seuil)
                             \/ AbsSuperieur(z_hum, zscore_seuil),
              method |-> "zscore", details |-> "",
              z_temperature |-> z_temp, z_humidity |-> z_hum]

\* What IsolationForest.fit / predict may give on a training matrix: a
\* verdict, or ValueError when the matrix holds NaN and the library rejects it.
IssuesForet(buf) ==
    {"normal", "anomalie"}
    \cup (IF \E i \in 1..Len(buf) : buf[i].champs # Champs THEN {"ValueError"} ELSE {})

Matrice(buf) == [i \in 1..Len(buf) |-> <<buf[i].temperature, buf[i].humidity>>]

\* mutant: a model already fitted is kept, and answers from its old training
Entrainement_Reprise(buf, mdl) == IF mdl.etat = "fitted" THEN mdl.X ELSE Matrice(buf)

\* the matrix the answering model is fitted on: self.model is a new
\* IsolationForest with the configured contamination, random_state and
\* n_estimators, fitted on the window, whatever self.model was
Entrainement(buf, mdl) == Matrice(buf)

\* [exc, result, model]; `issue` is the library's outcome, read only once
\* the window holds IForestMin readings.
detecter_isolation_forest(buf, mdl, issue) ==
    IF Len(buf) < IForestMin
    THEN [exc |-> "", result |-> Insuffisant("isolation_forest"), model |-> mdl]
    ELSE IF issue = "ValueError"
    THEN [exc |-> "ValueError", result |-> Insuffisant("isolation_forest"),
          model |-> [etat |-> "unfitted", X |-> <<>>]]
    ELSE [exc |-> "",
          result |-> [is_anomaly |-> issue = "anomalie", method |-> "isolation_forest",
                      details |-> "", z_temperature |-> ZNul, z_humidity |-> ZNul],
          model |-> [etat |-> "fitted", X |-> Entrainement(buf, mdl)]]

\* mutant: both detectors must agree
Combiner_Et(zs, ifo) == zs.is_anomaly /\ ifo.is_anomaly

\* is_anomaly of the combined verdict
Combiner(zs, ifo) == zs.is_anomaly \/ ifo.is_anomaly

\* mutant: the ensemble detector is never named
Methodes_ZscoreSeul(zs, ifo) == IF zs.is_anomaly THEN <<"Z-score">> ELSE <<>>

\* detection_methods, in the order the code appends them
Methodes(zs, ifo) ==
    (IF zs.is_anomaly THEN <<"Z-score">> ELSE <<>>)
    \o (IF ifo.is_anomaly THEN <<"Isolation Forest">> ELSE <<>>)

ResultVide ==
    [is_anomaly |-> FALSE, detection_methods |-> <<>>,
     zscore_result |-> Insuffisant(""), iforest_result |-> Insuffisant("")]

\* [exc, result, model]
detecter_anomalie(donnee, buf, st, mdl, issue) ==
    IF ~("temperature" \in donnee.champs /\ "humidity" \in donnee.champs)
    THEN [exc |-> "KeyError", result |-> ResultVide, model |-> mdl]
    ELSE LET result_zscore == detecter_zscore(st, donnee.temperature, donnee.humidity)
             foret == detecter_isolation_forest(buf, mdl, issue)
             result_iforest == foret.result
         IN  IF foret.exc # ""
             THEN [exc |-> foret.exc, result |-> ResultVide, model |-> foret.model]
             ELSE [exc |-> "",
                   result |-> [is_anomaly |-> Combiner(result_zscore, result_iforest),
                               detection_methods |-> Methodes(result_zscore, result_iforest),
                               zscore_result |-> result_zscore,
                               iforest_result |-> result_iforest],
                   model |-> foret.model]

(***************************************************************************)
(* Updates.                                                                *)
(***************************************************************************)
\* mutant: the stats are those of the latest reading's sensor
mettre_a_jour_stats_ParCapteur(buf, st) ==
    IF Len(buf) < 2 THEN [exc |-> "", stats |-> st]
    ELSE LET memes == SelectSeq(buf, LAMBDA d : d.sensor_id = buf[Len(buf)].sensor_id)
             temp == Colonne(memes, "temperature", Len(memes))
             hum == Colonne(memes, "humidity", Len(memes))
             s1 == [st EXCEPT !.count = Len(memes)]
             s2 == [s1 EXCEPT !.mean_temp = Moyenne(temp), !.std_temp = EcartType(temp)]
             s3 == [s2 EXCEPT !.mean_hum = Moyenne(hum), !.std_hum = EcartType(hum)]
         IN  IF temp.n = 0 THEN [exc |-> "KeyError", stats |-> s1]
             ELSE IF hum.n = 0 THEN [exc |-> "KeyError", stats |-> s2]
             ELSE [exc |-> "", stats |-> s3]

\* [exc, stats]: df[champ] raises KeyError when no row of the window holds
\* the key, after the assignments that precede it.
mettre_a_jour_stats(buf, st) ==
    IF Len(buf) < 2 THEN [exc |-> "", stats |-> st]
    ELSE LET temp == Colonne(buf, "temperature", Len(buf))
             hum == Colonne(buf, "humidity", Len(buf))
             s1 == [st EXCEPT !.count = Len(buf)]
             s2 == [s1 EXCEPT !.mean_temp = Moyenne(temp), !.std_temp = EcartType(temp)]
             s3 == [s2 EXCEPT !.mean_hum = Moyenne(hum), !.std_hum = EcartType(hum)]
         IN  IF temp.n = 0 THEN [exc |-> "KeyError", stats |-> s1]
             ELSE IF hum.n = 0 THEN [exc |-> "KeyError", stats |-> s2]
             ELSE [exc |-> "", stats |-> s3]

\* mutant: a list without maxlen
Inserer_SansBorne(buf, donnee, taille) == Append(buf, donnee)

\* deque(maxlen = taille).append
Inserer(buf, donnee, taille) ==
    IF Len(buf) >= taille THEN Append(Tail(buf), donnee) ELSE Append(buf, donnee)

\* ",".join(detection_methods)
RECURSIVE Joindre(_)
Joindre(m) ==
    IF m = <<>> THEN ""
    ELSE IF Len(m) = 1 THEN m[1]
    ELSE m[1] \o "," \o Joindre(Tail(m))

Statut(is_anomaly) == IF is_anomaly THEN "ANOMALIE" ELSE "NORMAL"

Enrichir(donnee, result) ==
    [sensor_id |-> donnee.sensor_id, timestamp |-> donnee.timestamp,
     champs |-> donnee.champs,
     temperature |-> donnee.temperature, humidity |-> donnee.humidity,
     is_anomaly |-> result.is_anomaly,
     status |-> Statut(result.is_anomaly),
     detection_methods |-> Joindre(result.detection_methods)]

\* mutant: every entry is appended to the anomalies
AjouterAnomalie_Toujours(anom, result, donnee_enrichie) == Append(anom, donnee_enrichie)

\* self.anomalies after the ledger step of ajouter_donnee
AjouterAnomalie(anom, result, donnee_enrichie) ==
    IF result.is_anomaly THEN Append(anom, donnee_enrichie) ELSE anom

\* mutant: the insert's exception is not caught
sauvegarder_mongodb_Propage(db, insertion) ==
    IF db = "None" THEN [exc |-> "", sauvegarde |-> "absent"]
    ELSE IF insertion = "echec" THEN [exc |-> "PyMongoError", sauvegarde |-> "echec"]
    ELSE [exc |-> "", sauvegarde |-> "ok"]

\* [exc, sauvegarde]: with no database the call returns at once ("absent");
\* an insert that raises is caught and reported ("echec"), never re-raised.
sauvegarder_mongodb(db, insertion) ==
    IF db = "None" THEN [exc |-> "", sauvegarde |-> "absent"]
    ELSE IF insertion = "echec" THEN [exc |-> "", sauvegarde |-> "echec"]
    ELSE [exc |-> "", sauvegarde |-> "ok"]

\* insert_one writes the identifier it gives the document into the dict it
\* is handed
AvecId(document, k) == ("_id" :> k) @@ document

\* mutant: the caller's dict itself is handed to insert_one
Persister_SansCopie(donnee, k) ==
    [document |-> AvecId(donnee, k), donnee |-> AvecId(donnee, k)]

\* the insert of sauvegarder_mongodb, as the k-th document of the collection:
\* donnee_clean is a new dict built from the items of `donnee`, and it is
\* the one inserted.  [document: what the collection receives, donnee: the
\* caller's dict after the call]
Persister(donnee, k) ==
    [document |-> AvecId(donnee, k), donnee |-> donnee]

\* the dict the ledger holds once sauvegarder_mongodb has run on it: the
\* history, the anomalies and the sink are handed the same object
Passe(donnee_enrichie, sauv, k) ==
    IF sauv.sauvegarde = "ok" THEN Persister(donnee_enrichie, k).donnee
    ELSE donnee_enrichie

(***************************************************************************)
(* ajouter_donnee: the whole call, on reading `donnee`, with the library's *)
(* outcome `issue` and the MongoDB insert's outcome `insertion`.           *)
(***************************************************************************)
Appel(donnee, exc, result, sauvegarde) ==
    /\ dernier' = [donnee |-> donnee, exc |-> exc, result |-> result,
                   sauvegarde |-> sauvegarde]
    /\ flux' = Append(flux, [donnee |-> donnee, exc |-> exc, sauvegarde |-> sauvegarde])

\* mutant: a reading already in the history is not recorded again
Enregistrer_SansDoublon(donnee, det, donnee_enrichie, sauv) ==
    IF det.exc # ""
    THEN /\ UNCHANGED <<historique, anomalies, collection>>
         /\ Appel(donnee, det.exc, ResultVide, "non")
    ELSE /\ historique' =
                IF \E i \in 1..Len(historique) :
                       historique[i].timestamp = donnee_enrichie.timestamp
                THEN historique
                ELSE Append(historique,
                            Passe(donnee_enrichie, sauv, Len(collection) + 1))
         /\ collection' = IF sauv.sauvegarde = "ok"
                          THEN Append(collection,
                                      Persister(donnee_enrichie, Len(collection) + 1).document)
                          ELSE collection
         /\ IF sauv.exc # ""
            THEN /\ UNCHANGED anomalies
                 /\ Appel(donnee, sauv.exc, ResultVide, sauv.sauvegarde)
            ELSE /\ anomalies' = AjouterAnomalie(anomalies, det.result,
                                                 Passe(donnee_enrichie, sauv, Len(collection) + 1))
                 /\ Appel(donnee, "", det.result, sauv.sauvegarde)

\* the ledger step and what follows it (lines 225-243), `det` being what
\* detecter_anomalie gave and `sauv` what sauvegarder_mongodb gives
Enregistrer(donnee, det, donnee_enrichie, sauv) ==
    IF det.exc # ""
    THEN /\ UNCHANGED <<historique, anomalies, collection>>
         /\ Appel(donnee, det.exc, ResultVide, "non")
    ELSE /\ historique' = Append(historique,
                                 Passe(donnee_enrichie, sauv, Len(collection) + 1))
         /\ collection' = IF sauv.sauvegarde = "ok"
                          THEN Append(collection,
                                      Persister(donnee_enrichie, Len(collection) + 1).document)
                          ELSE collection
         /\ IF sauv.exc # ""
            THEN /\ UNCHANGED anomalies
                 /\ Appel(donnee, sauv.exc, ResultVide, sauv.sauvegarde)
            ELSE /\ anomalies' = AjouterAnomalie(anomalies, det.result,
                                                 Passe(donnee_enrichie, sauv, Len(collection) + 1))
                 /\ Appel(donnee, "", det.result, sauv.sauvegarde)

\* the detection step and what follows it (lines 223-243), `maj` being what
\* mettre_a_jour_stats gave on the window `buf`
Detecter(donnee, issue, insertion, buf, maj) ==
    /\ stats' = maj.stats
    /\ IF maj.exc # ""
       THEN /\ UNCHANGED <<historique, anomalies, model, collection>>
            /\ Appel(donnee, maj.exc, ResultVide, "non")
       ELSE LET det == detecter_anomalie(donnee, buf, maj.stats, model, issue)
            IN  /\ model' = det.model
                /\ Enregistrer(donnee, det, Enrichir(donnee, det.result),
                               sauvegarder_mongodb(mongodb_db, insertion))

\* mutant: the reading is classified before it enters the window
ajouter_donnee_AvantInsertion(donnee, issue, insertion) ==
    /\ buffer_donnees' = Inserer(buffer_donnees, donnee, buffer_taille)
    /\ nb_appels' = nb_appels + 1
    /\ UNCHANGED <<buffer_taille, mongodb_db>>
    /\ Detecter(donnee, issue, insertion, buffer_donnees,
                mettre_a_jour_stats(buffer_donnees, stats))

ajouter_donnee(donnee, issue, insertion) ==
    LET buf == Inserer(buffer_donnees, donnee, buffer_taille)
    IN  /\ buffer_donnees' = buf
        /\ nb_appels' = nb_appels + 1
        /\ UNCHANGED <<buffer_taille, mongodb_db>>
        /\ Detecter(donnee, issue, insertion, buf, mettre_a_jour_stats(buf, stats))

\* a reading that holds both fields
Valide(d) == d.champs = Champs

\* the library is consulted only once the window is warm; below, one outcome
Issues(donnee) ==
    LET buf == Inserer(buffer_donnees, donnee, buffer_taille)
    IN  IF Len(buf) < IForestMin \/ donnee.champs # Champs THEN {"normal"}
        ELSE IssuesForet(buf)

(***************************************************************************)
(* Actions.                                                                *)
(***************************************************************************)
\* no file written yet by this process
\* ecrits: the files written; export_a: the number of ajouter_donnee calls
\* made when sauvegarder_csv last ran; repete: the latest sauvegarder_csv call
\* followed another with no ajouter_donnee in between
FichiersInit ==
    [historique |-> <<>>, anomalies |-> <<>>, ecrits |-> {}, export_a |-> 0 - 1,
     repete |-> FALSE]

\* RecepteurMQTT.__init__.  pc: where demarrer and the on_message call in
\* progress stand; payload, result, donnee_enrichie, sauvegarde: the locals of
\* the call in progress; livres: the readings on_message decoded, in order;
\* erreur: the exception the latest on_message call caught and printed
RecepteurInit ==
    [pc |-> "init", compteur_messages |-> 0, client |-> "None",
     payload |-> Mesure(0, temperature_moyenne, humidite_moyenne),
     result |-> ResultVide,
     donnee_enrichie |-> Enrichir(Mesure(0, temperature_moyenne, humidite_moyenne), ResultVide),
     sauvegarde |-> "non", livres |-> <<>>, erreur |-> ""]

\* the second detector, as __init__ leaves it.  mode: how its stream is
\* related to the first detector's; exc, result: what its latest call gave;
\* ecart: the two detectors have given different answers at some call
JumeauInit ==
    [mode |-> "", buffer_donnees |-> <<>>, stats |-> StatsInit, model |-> ModelNone,
     exc |-> "aucun", result |-> ResultVide, ecart |-> FALSE]

\* CloudManager.__init__ and EmailService.__init__ with nothing configured:
\* no MongoDB URI, no SendGrid key, no SMTP credentials.  appel: the latest
\* operation called; entree: the dict it was handed; apres: that dict as the
\* caller finds it when the call has returned; client: MongoDBStorage.client
\* (None, a MongoClient, or a MongoClient that was closed); retour: what the
\* latest direct call of a sink returned; lus: the list a get_* call returned
CloudInit ==
    [connected |-> FALSE, enabled |-> FALSE, mode |-> "simulation",
     mesures |-> <<>>, anomalies |-> <<>>, alertes |-> <<>>, nb_appels |-> 0,
     appel |-> "", entree |-> Mesure(0, temperature_moyenne, humidite_moyenne),
     apres |-> Mesure(0, temperature_moyenne, humidite_moyenne),
     client |-> "None", retour |-> "", lus |-> <<>>]

\* the dashboard before it has loaded or shown anything
DashboardInit == [df_anomalies |-> <<>>, alertes |-> <<>>, affiche |-> FALSE]

\* what the other components hold, untouched by a direct call of the detector
autres == <<horizon, dashboard, fichiers, recepteur, jumeau, cloud>>

DernierInit ==
    [donnee |-> Mesure(0, temperature_moyenne, humidite_moyenne), exc |-> "aucun",
     result |-> ResultVide, sauvegarde |-> "non"]

\* DetecteurAnomalies.__init__; _connecter_mongodb leaves mongodb_db None
\* (pymongo missing, URI not set, ping failed) or connected.
Construire(tailles, bases) ==
    /\ buffer_taille \in tailles
    /\ buffer_donnees = <<>>
    /\ historique = <<>>
    /\ anomalies = <<>>
    /\ model = ModelNone
    /\ stats = StatsInit
    /\ mongodb_db \in bases
    /\ collection = <<>>
    /\ dernier = DernierInit
    /\ flux = <<>>
    /\ nb_appels = 0
    /\ nb_perturbations = 0

Init ==
    /\ Construire({PetiteFenetre, fenetre_analyse}, {"None", "db"})
    /\ horizon = MaxMesures
    /\ dashboard = DashboardInit
    /\ fichiers = FichiersInit
    /\ recepteur = RecepteurInit
    /\ jumeau = JumeauInit
    /\ cloud = CloudInit

\* a baseline reading, the sink working (or absent)
AjouterNominale ==
    /\ nb_appels < horizon
    /\ \E issue \in Issues(Mesure(nb_appels + 1, temperature_moyenne, humidite_moyenne)) :
          ajouter_donnee(Mesure(nb_appels + 1, temperature_moyenne, humidite_moyenne),
                         issue, "ok")
    /\ UNCHANGED nb_perturbations
    /\ UNCHANGED autres

\* a reading off the baseline
AjouterEcart ==
    /\ nb_appels < horizon
    /\ nb_perturbations < MaxPerturbations
    /\ \E e \in Ecarts :
          \E issue \in Issues(Mesure(nb_appels + 1, e[1], e[2])) :
             ajouter_donnee(Mesure(nb_appels + 1, e[1], e[2]), issue, "ok")
    /\ nb_perturbations' = nb_perturbations + 1
    /\ UNCHANGED autres

\* a reading with a numeric field missing
AjouterIncomplete ==
    /\ nb_appels < horizon
    /\ nb_perturbations < MaxPerturbations
    /\ \E champ \in Champs :
          ajouter_donnee(MesureSans(nb_appels + 1, champ), "normal", "ok")
    /\ nb_perturbations' = nb_perturbations + 1
    /\ UNCHANGED autres

\* a baseline reading whose MongoDB insert raises
AjouterPanne ==
    /\ nb_appels < horizon
    /\ nb_perturbations < MaxPerturbations
    /\ mongodb_db = "db"
    /\ \E issue \in Issues(Mesure(nb_appels + 1, temperature_moyenne, humidite_moyenne)) :
          ajouter_donnee(Mesure(nb_appels + 1, temperature_moyenne, humidite_moyenne),
                         issue, "echec")
    /\ nb_perturbations' = nb_perturbations + 1
    /\ UNCHANGED autres

\* a reading that was already handed in comes again, unchanged: the first
\* of the stream (its timestamp is the oldest) or the latest; it may come on
\* top of the other events of the stream
AjouterRejeu ==
    /\ nb_appels < horizon
    /\ nb_perturbations < MaxPerturbations + 1
    /\ flux # <<>>
    /\ \E i \in {1, Len(flux)} :
          /\ Valide(flux[i].donnee)
          /\ \E issue \in Issues(flux[i].donnee) :
                ajouter_donnee(flux[i].donnee, issue, "ok")
    /\ nb_perturbations' = nb_perturbations + 1
    /\ UNCHANGED autres

Next == AjouterNominale \/ AjouterEcart \/ AjouterIncomplete \/ AjouterPanne

Spec == Init /\ [][Next]_vars

\* streams in which a reading comes twice
InitRejeu ==
    /\ Construire({PetiteFenetre, fenetre_analyse}, {"None", "db"})
    /\ horizon = MaxMesuresRejeu
    /\ dashboard = DashboardInit
    /\ fichiers = FichiersInit
    /\ recepteur = RecepteurInit
    /\ jumeau = JumeauInit
    /\ cloud = CloudInit

NextRejeu ==
    AjouterNominale \/ AjouterEcart \/ AjouterIncomplete \/ AjouterPanne \/ AjouterRejeu

SpecRejeu == InitRejeu /\ [][NextRejeu]_vars

(***************************************************************************)
(* Cloud services: CloudManager (MongoDBStorage, AlerteService) and        *)
(* EmailService.  cloud.mesures and cloud.anomalies are the two Atlas      *)
(* collections, cloud.alertes the calls of envoyer_alerte, in order.       *)
(***************************************************************************)
\* the temperatures handed to the services: around both thresholds
TemperaturesCloud ==
    {seuil_temperature_basse - 1, seuil_temperature_basse, temperature_moyenne,
     seuil_temperature_haute, seuil_temperature_haute + 1}

\* dict.get(cle, defaut); d.champs tells which of the Champs the dict holds
Get(d, champ, defaut) ==
    IF champ \in Champs /\ champ \notin d.champs THEN defaut ELSE d[champ]

\* sauvegarder_mesure and sauvegarder_anomalie stamp the dict they are
\* handed before they insert it
Horodater(document) == ("_created_at" :> "now") @@ document

\* mutant: the caller's dict itself is handed to the store
Remettre_SansCopie(connected, mesure) ==
    [document |-> Horodater(mesure),
     mesure |-> IF connected THEN Horodater(mesure) ELSE mesure]

\* self.storage.sauvegarder_mesure(mesure.copy()): the store is handed a new
\* dict.  [document: what the store inserts when connected, mesure: the
\* caller's dict after the call]
Remettre(connected, mesure) ==
    [document |-> Horodater(mesure), mesure |-> mesure]

\* MongoDBStorage.sauvegarder_mesure / sauvegarder_anomalie: insert_one when
\* connected, nothing otherwise
Stocker(connected, documents, document) ==
    IF connected THEN Append(documents, document) ELSE documents

\* AlerteService.envoyer_alerte: SendGrid when a key is set, else a printed
\* simulation; EmailService.envoyer_alerte: SMTP or a printed simulation
\* sujet names the kind of alert; message holds what the body of the mail
\* shows, by label
envoyer_alerte(alertes, service, canal, niveau, sujet, message) ==
    Append(alertes, [service |-> service, canal |-> canal, niveau |-> niveau,
                     sujet |-> sujet, sensor_id |-> message.sensor_id,
                     temperature |-> message.temperature, message |-> message])

CanalSendGrid(enabled) == IF enabled THEN "sendgrid" ELSE "simulation"

\* AlerteService.alerte_temperature_critique
alerte_temperature_critique(alertes, service, canal, sensor_id, temperature) ==
    IF temperature > seuil_temperature_haute
    THEN envoyer_alerte(alertes, service, canal, "critical", "Surchauffe détectée",
             [sensor_id |-> sensor_id, temperature |-> temperature,
              seuil |-> seuil_temperature_haute])
    ELSE IF temperature < seuil_temperature_basse
         THEN envoyer_alerte(alertes, service, canal, "warning",
                  "Sous-température détectée",
                  [sensor_id |-> sensor_id, temperature |-> temperature,
                   seuil |-> seuil_temperature_basse])
         ELSE alertes

\* CloudManager.traiter_mesure
traiter_mesure(cl, mesure) ==
    LET temperature == Get(mesure, "temperature", 0)
        sensor_id == Get(mesure, "sensor_id", "UNKNOWN")
    IN  [cl EXCEPT
           !.mesures = Stocker(cl.connected, @, Remettre(cl.connected, mesure).document),
           !.alertes =
               IF \/ temperature > seuil_temperature_haute
                  \/ temperature < seuil_temperature_basse
               THEN alerte_temperature_critique(@, "AlerteService",
                        CanalSendGrid(cl.enabled), sensor_id, temperature)
               ELSE @,
           !.nb_appels = @ + 1,
           !.appel = "traiter_mesure",
           !.entree = mesure,
           !.apres = Remettre(cl.connected, mesure).mesure]

\* CloudManager.traiter_anomalie
traiter_anomalie(cl, anomalie) ==
    [cl EXCEPT
       !.anomalies = Stocker(cl.connected, @, Remettre(cl.connected, anomalie).document),
       !.alertes = envoyer_alerte(@, "AlerteService", CanalSendGrid(cl.enabled),
                       "warning", "Anomalie détectée",
                       [sensor_id |-> Get(anomalie, "sensor_id", "UNKNOWN"),
                        temperature |-> Get(anomalie, "temperature", 0),
                        humidity |-> Get(anomalie, "humidity", "N/A"),
                        timestamp |-> Get(anomalie, "timestamp", "N/A")]),
       !.nb_appels = @ + 1,
       !.appel = "traiter_anomalie",
       !.entree = anomalie,
       !.apres = Remettre(cl.connected, anomalie).mesure]

\* EmailService.alerte_anomalie
alerte_anomalie(cl, sensor_id, temperature, humidity) ==
    [cl EXCEPT
       !.alertes = envoyer_alerte(@, "EmailService", cl.mode, "warning",
                       "Anomalie détectée",
                       [sensor_id |-> sensor_id, temperature |-> temperature,
                        humidity |-> humidity]),
       !.nb_appels = @ + 1,
       !.appel = "alerte_anomalie"]

\* humidities a measure may hold: the baseline, and one past the upper
\* humidity threshold
HumiditesCloud == {humidite_moyenne, seuil_humidite_haute + 1}

\* an anomaly entry as ajouter_donnee records it
Anomalie(k, t) ==
    Enrichir(Mesure(k, t, humidite_moyenne),
             [ResultVide EXCEPT !.is_anomaly = TRUE,
                               !.detection_methods = <<"Isolation Forest">>])

InitCloud ==
    /\ Construire({fenetre_analyse}, {"None"})
    /\ horizon = 0
    /\ dashboard = DashboardInit
    /\ fichiers = FichiersInit
    /\ recepteur = RecepteurInit
    /\ jumeau = JumeauInit
    /\ cloud \in {[CloudInit EXCEPT !.connected = c, !.enabled = e, !.mode = m,
                                     !.client = IF c THEN "MongoClient" ELSE "None"] :
                     c \in BOOLEAN, e \in BOOLEAN, m \in {"simulation", "smtp"}}

HorsCloud == <<detecteur, nb_perturbations, horizon, dashboard, fichiers, recepteur, jumeau>>

TraiterMesure ==
    /\ cloud.nb_appels < MaxAppelsCloud
    /\ \E t \in TemperaturesCloud, h \in HumiditesCloud :
          cloud' = traiter_mesure(cloud, Mesure(cloud.nb_appels + 1, t, h))
    /\ UNCHANGED HorsCloud

TraiterMesureIncomplete ==
    /\ cloud.nb_appels < MaxAppelsCloud
    /\ cloud' = traiter_mesure(cloud, MesureSans(cloud.nb_appels + 1, "temperature"))
    /\ UNCHANGED HorsCloud

TraiterAnomalie ==
    /\ cloud.nb_appels < MaxAppelsCloud
    /\ \E t \in TemperaturesCloud :
          cloud' = traiter_anomalie(cloud, Anomalie(cloud.nb_appels + 1, t))
    /\ UNCHANGED HorsCloud

AlerteAnomalie ==
    /\ cloud.nb_appels < MaxAppelsCloud
    /\ \E t \in TemperaturesCloud :
          cloud' = alerte_anomalie(cloud, "C001", t, humidite_moyenne)
    /\ UNCHANGED HorsCloud

NextCloud == TraiterMesure \/ TraiterMesureIncomplete \/ TraiterAnomalie \/ AlerteAnomalie

SpecCloud == InitCloud /\ [][NextCloud]_vars

(***************************************************************************)
(* Exports: sauvegarder_csv, generer_graphique, afficher_stats, called at  *)
(* any time between two ajouter_donnee calls.  fichiers.historique and     *)
(* fichiers.anomalies are the rows of data/historique.csv and of           *)
(* data/anomalies.csv.                                                     *)
(***************************************************************************)
\* one row of DataFrame.to_csv: the columns of a ledger entry, as text cells
Ligne(e) ==
    [sensor_id |-> e.sensor_id, timestamp |-> e.timestamp,
     temperature |-> e.temperature, humidity |-> e.humidity,
     is_anomaly |-> IF e.is_anomaly THEN "True" ELSE "False",
     status |-> e.status, detection_methods |-> e.detection_methods]

\* pd.DataFrame(entries).to_csv(index=False): one row per entry, in order
Csv(entries) == [i \in 1..Len(entries) |-> Ligne(entries[i])]

\* mutant: the files are opened in append mode
sauvegarder_csv_Ajout(f, hist, anom, n) ==
    IF hist = <<>>
    THEN [f EXCEPT !.repete = (f.export_a = n), !.export_a = n]
    ELSE [f EXCEPT !.historique = @ \o Csv(hist),
                   !.anomalies = IF anom # <<>> THEN @ \o Csv(anom) ELSE @,
                   !.ecrits = @ \cup {"historique.csv"}
                                \cup (IF anom # <<>> THEN {"anomalies.csv"} ELSE {}),
                   !.repete = (f.export_a = n), !.export_a = n]

\* sauvegarder_csv on the ledger (hist, anom), n calls of ajouter_donnee made:
\* nothing is written for an empty history, anomalies.csv is written only
\* when there are anomalies, and each file is rewritten whole
sauvegarder_csv(f, hist, anom, n) ==
    IF hist = <<>>
    THEN [f EXCEPT !.repete = (f.export_a = n), !.export_a = n]
    ELSE [f EXCEPT !.historique = Csv(hist),
                   !.anomalies = IF anom # <<>> THEN Csv(anom) ELSE @,
                   !.ecrits = @ \cup {"historique.csv"}
                                \cup (IF anom # <<>> THEN {"anomalies.csv"} ELSE {}),
                   !.repete = (f.export_a = n), !.export_a = n]

\* generer_graphique: no graph below GraphiqueMin entries
generer_graphique(f, hist) ==
    IF Len(hist) < GraphiqueMin THEN f
    ELSE [f EXCEPT !.ecrits = @ \cup {"graphique_anomalies.png"}]

InitExport ==
    /\ Construire({fenetre_analyse}, {"db"})
    /\ horizon = MaxMesuresExport
    /\ dashboard = DashboardInit
    /\ fichiers = FichiersInit
    /\ recepteur = RecepteurInit
    /\ jumeau = JumeauInit
    /\ cloud = CloudInit

HorsFichiers == <<detecteur, nb_perturbations, horizon, dashboard, recepteur, jumeau, cloud>>

SauvegarderCsv ==
    /\ fichiers' = sauvegarder_csv(fichiers, historique, anomalies, nb_appels)
    /\ UNCHANGED HorsFichiers

GenererGraphique ==
    /\ fichiers' = generer_graphique(fichiers, historique)
    /\ UNCHANGED HorsFichiers

\* afficher_stats prints the stats and the number of anomalies
AfficherStats == UNCHANGED vars

NextExport ==
    \/ AjouterNominale
    \/ AjouterEcart
    \/ AjouterPanne
    \/ SauvegarderCsv
    \/ GenererGraphique
    \/ AfficherStats

SpecExport == InitExport /\ [][NextExport]_vars

(***************************************************************************)
(* RecepteurMQTT: demarrer and on_message, statement by statement.         *)
(* loop_forever runs the network loop in the calling thread and calls      *)
(* on_message from it, so a message is handed over only when the previous  *)
(* call has returned.  Ctrl+C raises KeyboardInterrupt between any two     *)
(* statements; `except Exception` does not catch it, and it unwinds to     *)
(* demarrer, which exports and disconnects.                                *)
(***************************************************************************)
HorsRecepteur == <<buffer_taille, mongodb_db, horizon, dashboard, jumeau, cloud>>

\* mqtt.Client(...), connect: the connection is made, or connect raises
Demarrer ==
    /\ recepteur.pc = "init"
    /\ \E issue \in {"ok", "echec"} :
          recepteur' = [recepteur EXCEPT
                          !.client = "client",
                          !.pc = IF issue = "ok" THEN "attente" ELSE "finally"]
    /\ UNCHANGED <<detecteur, nb_perturbations, fichiers, horizon, dashboard, jumeau, cloud>>

\* mutant: a message is handed over while a call is in progress
Livrable_Reentrant(r) == r.pc \notin {"init", "arret", "finally", "fini"}

\* loop_forever hands a message over between two on_message calls
Livrable(r) == r.pc = "attente"

\* on_message, lines 364-365: the payload is decoded and counted
Recevoir(donnee) ==
    /\ Livrable(recepteur)
    /\ recepteur.compteur_messages < horizon
    /\ recepteur' = [recepteur EXCEPT
                       !.payload = donnee, !.compteur_messages = @ + 1,
                       !.livres = Append(@, donnee), !.erreur = "",
                       !.pc = "inserer"]
    /\ UNCHANGED <<detecteur, fichiers, HorsRecepteur>>

RecevoirNominale ==
    /\ Recevoir(Mesure(recepteur.compteur_messages + 1, temperature_moyenne,
                       humidite_moyenne))
    /\ UNCHANGED nb_perturbations

\* past the warm-up, a reading off the baseline or one with a missing field
RecevoirPerturbee ==
    /\ recepteur.compteur_messages >= ZscoreMin
    /\ nb_perturbations < MaxPerturbationsRecues
    /\ \E donnee \in {Mesure(recepteur.compteur_messages + 1, e[1], e[2]) : e \in Ecarts}
                     \cup {MesureSans(recepteur.compteur_messages + 1, c) : c \in Champs} :
          Recevoir(donnee)
    /\ nb_perturbations' = nb_perturbations + 1

\* the call of ajouter_donnee ends: with its result, or with an exception
\* that on_message catches and prints
Fin(exc, result, sauvegarde) ==
    /\ Appel(recepteur.payload, exc, result, sauvegarde)
    /\ nb_appels' = nb_appels + 1

\* line 217
EtapeInserer ==
    /\ recepteur.pc = "inserer"
    /\ buffer_donnees' = Inserer(buffer_donnees, recepteur.payload, buffer_taille)
    /\ recepteur' = [recepteur EXCEPT !.pc = "stats"]
    /\ UNCHANGED <<historique, anomalies, model, stats, collection, dernier, flux,
                   nb_appels, nb_perturbations, fichiers, HorsRecepteur>>

\* line 220
EtapeStats ==
    /\ recepteur.pc = "stats"
    /\ LET maj == mettre_a_jour_stats(buffer_donnees, stats)
       IN  /\ stats' = maj.stats
           /\ IF maj.exc # ""
              THEN /\ recepteur' = [recepteur EXCEPT !.erreur = maj.exc,
                                                         !.pc = "attente"]
                   /\ Fin(maj.exc, ResultVide, "non")
              ELSE /\ recepteur' = [recepteur EXCEPT !.pc = "detecter"]
                   /\ UNCHANGED <<dernier, flux, nb_appels>>
    /\ UNCHANGED <<buffer_donnees, historique, anomalies, model, collection,
                   nb_perturbations, fichiers, HorsRecepteur>>

\* line 223
EtapeDetecter ==
    /\ recepteur.pc = "detecter"
    /\ \E issue \in (IF Len(buffer_donnees) < IForestMin \/ ~Valide(recepteur.payload)
                      THEN {"normal"} ELSE IssuesForet(buffer_donnees)) :
          LET det == detecter_anomalie(recepteur.payload, buffer_donnees, stats, model, issue)
          IN  /\ model' = det.model
              /\ IF det.exc # ""
                 THEN /\ recepteur' = [recepteur EXCEPT !.erreur = det.exc,
                                                            !.pc = "attente"]
                      /\ Fin(det.exc, ResultVide, "non")
                 ELSE /\ recepteur' = [recepteur EXCEPT !.result = det.result,
                                                         !.pc = "historique"]
                      /\ UNCHANGED <<dernier, flux, nb_appels>>
    /\ UNCHANGED <<buffer_donnees, historique, anomalies, stats, collection,
                   nb_perturbations, fichiers, HorsRecepteur>>

\* lines 226-234
EtapeHistorique ==
    /\ recepteur.pc = "historique"
    /\ LET donnee_enrichie == Enrichir(recepteur.payload, recepteur.result)
       IN  /\ historique' = Append(historique, donnee_enrichie)
           /\ recepteur' = [recepteur EXCEPT !.donnee_enrichie = donnee_enrichie,
                                              !.pc = "mongodb"]
    /\ UNCHANGED <<buffer_donnees, anomalies, model, stats, collection, dernier, flux,
                   nb_appels, nb_perturbations, fichiers, HorsRecepteur>>

\* line 237: the entry just appended is the dict handed to the sink
EtapeMongodb ==
    /\ recepteur.pc = "mongodb"
    /\ \E insertion \in {"ok"} \cup (IF mongodb_db = "db"
                                        /\ nb_perturbations < MaxPerturbationsRecues
                                     THEN {"echec"} ELSE {}) :
          LET sauv == sauvegarder_mongodb(mongodb_db, insertion)
              k == Len(collection) + 1
              entree == Passe(recepteur.donnee_enrichie, sauv, k)
          IN  /\ collection' = IF sauv.sauvegarde = "ok"
                               THEN Append(collection,
                                           Persister(recepteur.donnee_enrichie, k).document)
                               ELSE collection
              /\ historique' = [historique EXCEPT ![Len(historique)] = entree]
              /\ nb_perturbations' = nb_perturbations + (IF insertion = "echec" THEN 1 ELSE 0)
              /\ IF sauv.exc # ""
                 THEN /\ recepteur' = [recepteur EXCEPT !.erreur = sauv.exc,
                                                            !.pc = "attente"]
                      /\ Fin(sauv.exc, ResultVide, sauv.sauvegarde)
                 ELSE /\ recepteur' = [recepteur EXCEPT !.donnee_enrichie = entree,
                                                         !.sauvegarde = sauv.sauvegarde,
                                                         !.pc = "anomalies"]
                      /\ UNCHANGED <<dernier, flux, nb_appels>>
    /\ UNCHANGED <<buffer_donnees, anomalies, model, stats, fichiers, HorsRecepteur>>

\* lines 240-243
EtapeAnomalies ==
    /\ recepteur.pc = "anomalies"
    /\ anomalies' = AjouterAnomalie(anomalies, recepteur.result, recepteur.donnee_enrichie)
    /\ Fin("", recepteur.result, recepteur.sauvegarde)
    /\ recepteur' = [recepteur EXCEPT !.pc = "periodique"]
    /\ UNCHANGED <<buffer_donnees, historique, model, stats, collection,
                   nb_perturbations, fichiers, HorsRecepteur>>

\* lines 375-390: the verdict is printed; every SauvegardeTous messages the
\* ledger is exported and the stats printed, every GraphiqueTous messages the
\* graph is drawn
EtapePeriodique ==
    /\ recepteur.pc = "periodique"
    /\ LET f == IF recepteur.compteur_messages % SauvegardeTous = 0
                THEN sauvegarder_csv(fichiers, historique, anomalies, nb_appels)
                ELSE fichiers
       IN  fichiers' = IF recepteur.compteur_messages % GraphiqueTous = 0
                       THEN generer_graphique(f, historique)
                       ELSE f
    /\ recepteur' = [recepteur EXCEPT !.pc = "attente"]
    /\ UNCHANGED <<detecteur, nb_perturbations, HorsRecepteur>>

\* Ctrl+C while loop_forever runs: the call in progress, if any, is abandoned
\* where it stands
Interrompre ==
    /\ recepteur.pc \notin {"init", "arret", "finally", "fini"}
    /\ recepteur' = [recepteur EXCEPT !.pc = "arret"]
    /\ IF recepteur.pc \in {"attente", "periodique"}
       THEN UNCHANGED <<dernier, flux, nb_appels>>
       ELSE Fin("KeyboardInterrupt", ResultVide, "non")
    /\ UNCHANGED <<buffer_donnees, historique, anomalies, model, stats, collection,
                   nb_perturbations, fichiers, HorsRecepteur>>

\* mutant: the interrupt handler exports nothing
Arreter_SansExport ==
    /\ recepteur.pc = "arret"
    /\ recepteur' = [recepteur EXCEPT !.pc = "finally"]
    /\ UNCHANGED <<detecteur, nb_perturbations, fichiers, HorsRecepteur>>

\* lines 434-437
Arreter ==
    /\ recepteur.pc = "arret"
    /\ fichiers' = generer_graphique(
                       sauvegarder_csv(fichiers, historique, anomalies, nb_appels),
                       historique)
    /\ recepteur' = [recepteur EXCEPT !.pc = "finally"]
    /\ UNCHANGED <<detecteur, nb_perturbations, HorsRecepteur>>

\* lines 440-443
Deconnecter ==
    /\ recepteur.pc = "finally"
    /\ recepteur' = [recepteur EXCEPT !.client = "deconnecte", !.pc = "fini"]
    /\ UNCHANGED <<detecteur, nb_perturbations, fichiers, HorsRecepteur>>

InitRecepteur ==
    /\ Construire({fenetre_analyse}, {"None", "db"})
    /\ horizon = MaxMessages
    /\ dashboard = DashboardInit
    /\ fichiers = FichiersInit
    /\ recepteur = RecepteurInit
    /\ jumeau = JumeauInit
    /\ cloud = CloudInit

NextRecepteur ==
    \/ Demarrer
    \/ RecevoirNominale
    \/ RecevoirPerturbee
    \/ EtapeInserer
    \/ EtapeStats
    \/ EtapeDetecter
    \/ EtapeHistorique
    \/ EtapeMongodb
    \/ EtapeAnomalies
    \/ EtapePeriodique
    \/ Interrompre
    \/ Arreter
    \/ Deconnecter

SpecRecepteur == InitRecepteur /\ [][NextRecepteur]_vars

(***************************************************************************)
(* Two detectors fed related streams.  In mode "capteur" the first gets    *)
(* the readings under the sensor ids of the configuration in turn, the     *)
(* second the same readings all under one id.  In mode "passe" the window  *)
(* holds IForestMin readings and the two streams differ by their first     *)
(* reading only, which the window has dropped after IForestMin more.       *)
(* The library is deterministic (fixed random_state): fitted on the same   *)
(* matrix and asked about the same point, it gives the same answer.        *)
(***************************************************************************)
\* capteur_config.sensor_ids
sensor_ids == <<"C001", "C002", "C003">>

\* the k-th reading comes from the sensors in turn
Capteur(k) == sensor_ids[((k - 1) % Len(sensor_ids)) + 1]

\* a first reading unlike `donnee`
Autre(donnee) ==
    IF Nominale(donnee)
    THEN Mesure(donnee.timestamp, temperature_moyenne + 16, humidite_moyenne)
    ELSE Mesure(donnee.timestamp, temperature_moyenne, humidite_moyenne)

\* ajouter_donnee up to its result, on a detector held in a record:
\* lines 217-223
Etape(etat, donnee, issue, taille) ==
    LET buf == Inserer(etat.buffer_donnees, donnee, taille)
        maj == mettre_a_jour_stats(buf, etat.stats)
        det == detecter_anomalie(donnee, buf, maj.stats, etat.model, issue)
    IN  IF maj.exc # ""
        THEN [etat EXCEPT !.buffer_donnees = buf, !.stats = maj.stats,
                          !.exc = maj.exc, !.result = ResultVide]
        ELSE [etat EXCEPT !.buffer_donnees = buf, !.stats = maj.stats,
                          !.model = det.model, !.exc = det.exc, !.result = det.result]

\* what the library may answer on the window `buf`
IssuesSur(buf) == IF Len(buf) < IForestMin THEN {"normal"} ELSE IssuesForet(buf)

\* the reading `donnee` goes to the first detector as donnee_a and to the
\* second as donnee_b
Jumeaux(donnee_a, donnee_b) ==
    LET buf_a == Inserer(buffer_donnees, donnee_a, buffer_taille)
        buf_b == Inserer(jumeau.buffer_donnees, donnee_b, buffer_taille)
    IN  \E issue_a \in IssuesSur(buf_a), issue_b \in IssuesSur(buf_b) :
          /\ (/\ Entrainement(buf_a, model) = Entrainement(buf_b, jumeau.model)
              /\ donnee_a.temperature = donnee_b.temperature
              /\ donnee_a.humidity = donnee_b.humidity) => issue_a = issue_b
          /\ ajouter_donnee(donnee_a, issue_a, "ok")
          /\ LET j == Etape(jumeau, donnee_b, issue_b, buffer_taille)
             IN  jumeau' = [j EXCEPT !.ecart = @ \/ j.result # dernier'.result]

Apparier(donnee) ==
    /\ nb_appels < horizon
    /\ IF jumeau.mode = "capteur"
       THEN Jumeaux([donnee EXCEPT !.sensor_id = Capteur(nb_appels + 1)], donnee)
       ELSE Jumeaux(donnee, IF nb_appels = 0 THEN Autre(donnee) ELSE donnee)
    /\ UNCHANGED <<horizon, dashboard, fichiers, recepteur, cloud>>

JumeauxNominale ==
    /\ Apparier(Mesure(nb_appels + 1, temperature_moyenne, humidite_moyenne))
    /\ UNCHANGED nb_perturbations

JumeauxEcart ==
    /\ nb_perturbations < MaxPerturbations
    /\ \E e \in Ecarts : Apparier(Mesure(nb_appels + 1, e[1], e[2]))
    /\ nb_perturbations' = nb_perturbations + 1

InitJumeaux ==
    /\ \E mode \in {"capteur", "passe"} :
          /\ jumeau = [JumeauInit EXCEPT !.mode = mode]
          /\ Construire({IF mode = "passe" THEN IForestMin ELSE fenetre_analyse}, {"None"})
    /\ horizon = IForestMin + MaxEvictions
    /\ dashboard = DashboardInit
    /\ fichiers = FichiersInit
    /\ recepteur = RecepteurInit
    /\ cloud = CloudInit

NextJumeaux == JumeauxNominale \/ JumeauxEcart

SpecJumeaux == InitJumeaux /\ [][NextJumeaux]_vars

(***************************************************************************)
(* A prescribed stream: fifteen readings whose temperature alternates      *)
(* between two close values, the humidity constant, then one reading far   *)
(* above.  The readings of this stream are held in tenths (24.8 is 248):   *)
(* the z-score is a ratio and does not depend on the unit.                 *)
(***************************************************************************)
Alternance == [bas |-> 248, haut |-> 252, pic |-> 400, longueur |-> 15]

\* the humidity the stream keeps, in tenths
HumiditesConstantes ==
    {10 * humidite_moyenne - 100, 10 * humidite_moyenne, 10 * humidite_moyenne + 100}

\* the next reading of the alternation: the other temperature, the same
\* humidity
AjouterAlternee ==
    /\ nb_appels < Alternance.longueur
    /\ \E t \in {Alternance.bas, Alternance.haut}, h \in HumiditesConstantes :
          /\ buffer_donnees # <<>> =>
                /\ t # buffer_donnees[Len(buffer_donnees)].temperature
                /\ h = buffer_donnees[Len(buffer_donnees)].humidity
          /\ ajouter_donnee(Mesure(nb_appels + 1, t, h), "normal", "ok")
    /\ UNCHANGED nb_perturbations
    /\ UNCHANGED autres

\* the reading far above, once the alternation is complete
AjouterPic ==
    /\ nb_appels = Alternance.longueur
    /\ ajouter_donnee(Mesure(nb_appels + 1, Alternance.pic,
                             buffer_donnees[Len(buffer_donnees)].humidity),
                      "normal", "ok")
    /\ nb_perturbations' = nb_perturbations + 1
    /\ UNCHANGED autres

InitAlternance ==
    /\ Construire({IForestMin, fenetre_analyse}, {"None", "db"})
    /\ horizon = Alternance.longueur + 1
    /\ dashboard = DashboardInit
    /\ fichiers = FichiersInit
    /\ recepteur = RecepteurInit
    /\ jumeau = JumeauInit
    /\ cloud = CloudInit

NextAlternance == AjouterAlternee \/ AjouterPic

SpecAlternance == InitAlternance /\ [][NextAlternance]_vars

(***************************************************************************)
(* on_message, one whole call per step.  The network loop calls it from    *)
(* the thread of loop_forever, one message at a time; `except Exception`   *)
(* at the end of the handler catches what json.loads, payload.get,         *)
(* ajouter_donnee, sauvegarder_csv and generer_graphique raise.            *)
(***************************************************************************)
\* lines 383-390, reached only when ajouter_donnee returned
Periodique(f, compteur, hist, anom, n) ==
    LET e == IF compteur % SauvegardeTous = 0 THEN sauvegarder_csv(f, hist, anom, n)
             ELSE f
    IN  IF compteur % GraphiqueTous = 0 THEN generer_graphique(e, hist) ELSE e

\* on_message on a payload that decodes to the JSON object `donnee`;
\* `export` is whether sauvegarder_csv, when called, can write its files
OnMessage(donnee, issue, insertion, export) ==
    /\ Livrable(recepteur)
    /\ recepteur.compteur_messages < horizon
    /\ ajouter_donnee(donnee, issue, insertion)
    /\ LET compteur == recepteur.compteur_messages + 1
           echec == /\ export = "echec"
                    /\ dernier'.exc = ""
                    /\ compteur % SauvegardeTous = 0
                    /\ historique' # <<>>
       IN  /\ fichiers' = IF dernier'.exc # "" \/ echec THEN fichiers
                          ELSE Periodique(fichiers, compteur, historique', anomalies',
                                          nb_appels')
           /\ recepteur' = [recepteur EXCEPT
                              !.compteur_messages = compteur,
                              !.payload = donnee,
                              !.livres = Append(@, donnee),
                              !.erreur = IF dernier'.exc # "" THEN dernier'.exc
                                         ELSE IF echec THEN "OSError" ELSE ""]
    /\ UNCHANGED <<horizon, dashboard, jumeau, cloud>>

\* a baseline reading
MessageNominal ==
    /\ \E issue \in Issues(Mesure(recepteur.compteur_messages + 1, temperature_moyenne,
                                  humidite_moyenne)) :
          OnMessage(Mesure(recepteur.compteur_messages + 1, temperature_moyenne,
                           humidite_moyenne), issue, "ok", "ok")
    /\ UNCHANGED nb_perturbations

\* a JSON object with a numeric field missing
MessageIncomplet ==
    /\ nb_perturbations < MaxPannesMessages
    /\ \E champ \in Champs :
          OnMessage(MesureSans(recepteur.compteur_messages + 1, champ), "normal", "ok", "ok")
    /\ nb_perturbations' = nb_perturbations + 1

\* a baseline reading, the export that follows it failing (data directory
\* missing or not writable)
MessageExportEchoue ==
    /\ nb_perturbations < MaxPannesMessages
    /\ (recepteur.compteur_messages + 1) % SauvegardeTous = 0
    /\ \E issue \in Issues(Mesure(recepteur.compteur_messages + 1, temperature_moyenne,
                                  humidite_moyenne)) :
          OnMessage(Mesure(recepteur.compteur_messages + 1, temperature_moyenne,
                           humidite_moyenne), issue, "ok", "echec")
    /\ nb_perturbations' = nb_perturbations + 1

\* a payload that is not JSON: json.loads raises at line 364, before the
\* counter is touched
MessageIndecodable ==
    /\ Livrable(recepteur)
    /\ nb_perturbations < MaxPannesMessages
    /\ recepteur' = [recepteur EXCEPT !.erreur = "JSONDecodeError"]
    /\ nb_perturbations' = nb_perturbations + 1
    /\ UNCHANGED <<detecteur, fichiers, horizon, dashboard, jumeau, cloud>>

\* a payload that is JSON but not an object (a list, a number, null): it is
\* counted at line 365 and payload.get raises AttributeError at line 368
MessageNonObjet ==
    /\ Livrable(recepteur)
    /\ recepteur.compteur_messages < horizon
    /\ nb_perturbations < MaxPannesMessages
    /\ recepteur' = [recepteur EXCEPT !.compteur_messages = @ + 1,
                                      !.erreur = "AttributeError"]
    /\ nb_perturbations' = nb_perturbations + 1
    /\ UNCHANGED <<detecteur, fichiers, horizon, dashboard, jumeau, cloud>>

InitMessages ==
    /\ Construire({fenetre_analyse}, {"None", "db"})
    /\ horizon = MaxMessagesEntiers
    /\ dashboard = DashboardInit
    /\ fichiers = FichiersInit
    /\ recepteur = RecepteurInit
    /\ jumeau = JumeauInit
    /\ cloud = CloudInit

NextMessages ==
    \/ Demarrer
    \/ MessageNominal
    \/ MessageIncomplet
    \/ MessageExportEchoue
    \/ MessageIndecodable
    \/ MessageNonObjet

SpecMessages == InitMessages /\ [][NextMessages]_vars

(***************************************************************************)
(* One reading scored against a window of any composition.  The window     *)
(* holds readings of a few kinds, any number of each; the stats depend on  *)
(* the readings of the window and not on their order, so the windows are   *)
(* taken with the kinds in a fixed order.  The detector is the one that    *)
(* ajouter_donnee leaves after these readings.                             *)
(***************************************************************************)
\* the kinds of reading: <<temperature, humidity>>
Lectures ==
    <<<<temperature_moyenne, humidite_moyenne>>,
      <<temperature_moyenne + 16, humidite_moyenne>>,
      <<temperature_moyenne, humidite_moyenne + 10>>,
      <<temperature_moyenne - 16, humidite_moyenne>>>>

\* the kind of the i-th reading when there are c[j] readings of kind j
RECURSIVE Rang(_, _, _)
Rang(c, i, j) == IF i <= c[j] \/ j = Len(Lectures) THEN j ELSE Rang(c, i - c[j], j + 1)

RECURSIVE Total(_, _)
Total(c, j) == IF j = 0 THEN 0 ELSE c[j] + Total(c, j - 1)

\* the stream of c[j] readings of each kind j
Suite(c) ==
    [i \in 1..Total(c, Len(Lectures)) |->
        Mesure(i, Lectures[Rang(c, i, 1)][1], Lectures[Rang(c, i, 1)][2])]

\* the detector after ajouter_donnee on each reading of `suite` in turn
RECURSIVE Rejouer(_)
Rejouer(suite) ==
    IF suite = <<>> THEN JumeauInit
    ELSE Etape(Rejouer(SubSeq(suite, 1, Len(suite) - 1)), suite[Len(suite)],
               "normal", fenetre_analyse)

\* one more reading, of any kind
Classer ==
    /\ jumeau.mode = "fenetre"
    /\ \E j \in 1..Len(Lectures) :
          jumeau' = [Etape(jumeau,
                           Mesure(Len(jumeau.buffer_donnees) + 1, Lectures[j][1],
                                  Lectures[j][2]),
                           "normal", fenetre_analyse)
                        EXCEPT !.mode = "classee"]
    /\ UNCHANGED <<detecteur, nb_perturbations, horizon, dashboard, fichiers, recepteur, cloud>>

InitFenetres ==
    /\ Construire({fenetre_analyse}, {"None"})
    /\ horizon = 0
    /\ dashboard = DashboardInit
    /\ fichiers = FichiersInit
    /\ recepteur = RecepteurInit
    /\ cloud = CloudInit
    /\ \E c \in [1..Len(Lectures) -> 0..MaxDejaVues] :
          /\ Total(c, Len(Lectures)) <= MaxDejaVues
          /\ jumeau = [Rejouer(Suite(c)) EXCEPT !.mode = "fenetre"]

NextFenetres == Classer

SpecFenetres == InitFenetres /\ [][NextFenetres]_vars

(***************************************************************************)
(* The dashboard: it loads the anomalies (from MongoDB, newest first, or   *)
(* from data/anomalies.csv, oldest first) and shows an alert box for each  *)
(* of the five last rows, newest first.                                    *)
(***************************************************************************)
\* temperatures of the rows: 0, below and above the low threshold, above
\* the high one
TemperaturesAffichees ==
    {0, alerte_sous_temperature - 1, temperature_moyenne, alerte_surchauffe + 1}

\* the label of a row, lines 408-419
alert_type(temp) ==
    IF temp > alerte_surchauffe THEN "SURCHAUFFE"
    ELSE IF temp < alerte_sous_temperature THEN "SOUS-TEMPÉRATURE"
    ELSE IF temp = 0 THEN "VALEUR NULLE"
    ELSE "ANOMALIE"

css_class(temp) ==
    IF temp > alerte_surchauffe \/ temp < alerte_sous_temperature THEN "alert-box"
    ELSE "alert-box-warning"

\* df.tail(n)
tail(df, n) == SubSeq(df, IF Len(df) > n THEN Len(df) - n + 1 ELSE 1, Len(df))

\* the position of the newest row of df
RECURSIVE PlusRecent(_, _)
PlusRecent(df, i) ==
    IF i = 1 THEN 1
    ELSE LET j == PlusRecent(df, i - 1)
         IN  IF df[i].timestamp > df[j].timestamp THEN i ELSE j

\* df.sort_values("timestamp", ascending=False)
RECURSIVE sort_values(_)
sort_values(df) ==
    IF df = <<>> THEN <<>>
    ELSE LET j == PlusRecent(df, Len(df))
         IN  <<df[j]>> \o sort_values(SubSeq(df, 1, j - 1) \o SubSeq(df, j + 1, Len(df)))

\* afficher_alertes: the boxes shown, top to bottom; none for an empty frame
afficher_alertes(df_anomalies) ==
    LET df_recent == sort_values(tail(df_anomalies, 5))
    IN  [i \in 1..Len(df_recent) |->
            [alert_type |-> alert_type(df_recent[i].temperature),
             css_class |-> css_class(df_recent[i].temperature),
             sensor_id |-> df_recent[i].sensor_id,
             timestamp |-> df_recent[i].timestamp,
             temperature |-> df_recent[i].temperature,
             humidity |-> df_recent[i].humidity]]

\* charger_anomalies: n rows, oldest first (CSV) or newest first (MongoDB)
Charger(n, ordre, temperatures) ==
    [i \in 1..n |->
        Mesure(IF ordre = "csv" THEN i ELSE n + 1 - i, temperatures[i], humidite_moyenne)]

\* main: the anomalies are loaded, then shown
AfficherAlertes ==
    /\ ~dashboard.affiche
    /\ dashboard' = [dashboard EXCEPT !.alertes = afficher_alertes(dashboard.df_anomalies),
                                      !.affiche = TRUE]
    /\ UNCHANGED <<detecteur, nb_perturbations, horizon, fichiers, recepteur, jumeau,
                   cloud>>

InitDashboard ==
    /\ Construire({fenetre_analyse}, {"None"})
    /\ horizon = 0
    /\ fichiers = FichiersInit
    /\ recepteur = RecepteurInit
    /\ jumeau = JumeauInit
    /\ cloud = CloudInit
    /\ \E n \in 0..MaxLignes, ordre \in {"csv", "mongodb"} :
          \E temperatures \in [1..n -> TemperaturesAffichees] :
             dashboard = [DashboardInit EXCEPT
                            !.df_anomalies = Charger(n, ordre, temperatures)]

NextDashboard == AfficherAlertes

SpecDashboard == InitDashboard /\ [][NextDashboard]_vars

(***************************************************************************)
(* The sinks called directly: MongoDBStorage (sauvegarder_mesure,          *)
(* sauvegarder_anomalie, get_mesures_recentes, get_anomalies, close),      *)
(* AlerteService.envoyer_alerte and EmailService.envoyer_alerte.  The      *)
(* outcome of an insert, of a read or of a send is the library's.          *)
(***************************************************************************)
\* the default `limit` of get_mesures_recentes and of get_anomalies
limit_mesures == 100
limit_anomalies == 50

\* sauvegarder_mesure (champ "mesures") and sauvegarder_anomalie (champ
\* "anomalies"): False when not connected or when the insert raises, else
\* the acknowledgement of the insert
sauvegarder(cl, champ, document, insertion) ==
    IF ~cl.connected \/ insertion = "echec"
    THEN [cl EXCEPT !.retour = "False"]
    ELSE [cl EXCEPT ![champ] = Stocker(cl.connected, @, Horodater(document)),
                    !.retour = "True"]

\* cursor.limit(limit)
Limiter(rows, limit) == SubSeq(rows, 1, IF Len(rows) < limit THEN Len(rows) ELSE limit)

\* get_mesures_recentes and get_anomalies: [] when not connected or when the
\* read raises, else the documents, newest first
get(cl, champ, limit, lecture) ==
    IF ~cl.connected \/ lecture = "echec"
    THEN [cl EXCEPT !.retour = "liste", !.lus = <<>>]
    ELSE [cl EXCEPT !.retour = "liste",
                    !.lus = Limiter(sort_values(cl[champ]), limit)]

\* mutant: close leaves `connected` as it was
close_SansEtat(cl) ==
    IF cl.client # "None" THEN [cl EXCEPT !.client = "ferme", !.retour = "None"]
    ELSE [cl EXCEPT !.retour = "None"]

\* MongoDBStorage.close
close(cl) ==
    IF cl.client # "None"
    THEN [cl EXCEPT !.client = "ferme", !.connected = FALSE, !.retour = "None"]
    ELSE [cl EXCEPT !.retour = "None"]

\* AlerteService.envoyer_alerte (service "AlerteService") and
\* EmailService.envoyer_alerte (service "EmailService") called directly:
\* `actif` is whether the service has what it needs to send, `envoi` what
\* the send gave
envoyer(cl, service, actif, canal, envoi) ==
    [cl EXCEPT !.alertes = envoyer_alerte(@, service, canal, "warning", "Test",
                               [sensor_id |-> "C001",
                                temperature |-> temperature_moyenne]),
               !.retour = IF actif /\ envoi = "ok" THEN "True" ELSE "False"]

\* one direct call: its name is recorded and it is counted
Puits(nom, cl) ==
    /\ cloud.nb_appels < MaxAppelsPuits
    /\ cloud' = [cl EXCEPT !.appel = nom, !.nb_appels = @ + 1]
    /\ UNCHANGED HorsCloud

SauvegarderMesure ==
    \E insertion \in {"ok", "echec"} :
       Puits("sauvegarder_mesure",
             sauvegarder(cloud, "mesures",
                         Mesure(cloud.nb_appels + 1, temperature_moyenne, humidite_moyenne),
                         insertion))

SauvegarderAnomalie ==
    \E insertion \in {"ok", "echec"} :
       Puits("sauvegarder_anomalie",
             sauvegarder(cloud, "anomalies",
                         Anomalie(cloud.nb_appels + 1, seuil_temperature_haute + 1),
                         insertion))

GetMesuresRecentes ==
    \E lecture \in {"ok", "echec"} :
       Puits("get_mesures_recentes", get(cloud, "mesures", limit_mesures, lecture))

GetAnomalies ==
    \E lecture \in {"ok", "echec"} :
       Puits("get_anomalies", get(cloud, "anomalies", limit_anomalies, lecture))

Close == Puits("close", close(cloud))

EnvoyerAlerte ==
    \E envoi \in {"ok", "echec"} :
       Puits("AlerteService.envoyer_alerte",
             envoyer(cloud, "AlerteService", cloud.enabled,
                     CanalSendGrid(cloud.enabled), envoi))

EnvoyerEmail ==
    \E envoi \in {"ok", "echec"} :
       Puits("EmailService.envoyer_alerte",
             envoyer(cloud, "EmailService", cloud.mode = "smtp", cloud.mode, envoi))

\* the store never configured or pymongo missing (no client), the ping
\* failed (a client, not connected), or connected
InitPuits ==
    /\ Construire({fenetre_analyse}, {"None"})
    /\ horizon = 0
    /\ dashboard = DashboardInit
    /\ fichiers = FichiersInit
    /\ recepteur = RecepteurInit
    /\ jumeau = JumeauInit
    /\ cloud \in {[CloudInit EXCEPT !.client = c[1], !.connected = c[2],
                                     !.enabled = e, !.mode = m] :
                     c \in {<<"None", FALSE>>, <<"MongoClient", FALSE>>,
                            <<"MongoClient", TRUE>>},
                     e \in BOOLEAN, m \in {"simulation", "smtp"}}

NextPuits ==
    \/ SauvegarderMesure
    \/ SauvegarderAnomalie
    \/ GetMesuresRecentes
    \/ GetAnomalies
    \/ Close
    \/ EnvoyerAlerte
    \/ EnvoyerEmail

SpecPuits == InitPuits /\ [][NextPuits]_vars

(***************************************************************************)
(* Properties.                                                             *)
(***************************************************************************)
Min(a, b) == IF a < b THEN a ELSE b

\* values a caller may hand to a detector, whatever the window holds
Grandeurs == {0, temperature_moyenne, humidite_moyenne, 100}

\* the original fields of a ledger entry
Origine(e) ==
    [sensor_id |-> e.sensor_id, timestamp |-> e.timestamp, champs |-> e.champs,
     temperature |-> e.temperature, humidity |-> e.humidity]

EstAnomalie(e) == e.is_anomaly

\* C1: after n calls of ajouter_donnee on a window of capacity C, the window
\* holds exactly the last min(n, C) readings handed in, in arrival order;
\* its length never exceeds C and, once full, each insertion evicts the
\* oldest reading only.
C1_FenetreGlissante ==
    LET n == Len(flux)
        l == Min(n, buffer_taille)
    IN  /\ Len(buffer_donnees) = l
        /\ Len(buffer_donnees) <= buffer_taille
        /\ \A i \in 1..l : buffer_donnees[i] = flux[n - l + i].donnee

\* C1, its case: capacity + 1 insertions made, the 1st reading is gone and
\* the (capacity + 1)-th is the newest of the window
C1_Temoin ==
    /\ Len(flux) = buffer_taille + 1
    /\ \A i \in 1..Len(buffer_donnees) : buffer_donnees[i] # flux[1].donnee
    /\ buffer_donnees[Len(buffer_donnees)] = flux[buffer_taille + 1].donnee

\* C2: a reading missing temperature or humidity is rejected with an error
\* and ajouter_donnee leaves the window, the running stats, the history and
\* the anomalies as they were before the call.
C2_RejetSansEffet ==
    [][(nb_appels' = nb_appels + 1 /\ ~Valide(dernier'.donnee))
         => /\ dernier'.exc # ""
            /\ UNCHANGED <<buffer_donnees, stats, historique, anomalies>>]_vars

\* C3: the anomalies list is the subsequence of the history entries whose
\* is_anomaly is true, in the same order.
C3_AnomaliesSousSuite == anomalies = SelectSeq(historique, EstAnomalie)

\* C3, its case: the ledger holds normal entries, an anomalous one and a
\* normal one after it
C3_Temoin ==
    /\ Len(anomalies) >= 1
    /\ Len(historique) > Len(anomalies) + 1
    /\ \E i \in 2..Len(historique) :
          historique[i - 1].is_anomaly /\ ~historique[i].is_anomaly

\* the names of detection_methods, as a set
NomsMethodes(result) ==
    {result.detection_methods[i] : i \in 1..Len(result.detection_methods)}

\* C4: the combined verdict is the OR of the two detectors' verdicts, and
\* detection_methods names the z-score detector exactly when its verdict is
\* positive and the ensemble detector exactly when its verdict is positive.
C4_VerdictOu ==
    dernier.exc = "" =>
        LET r == dernier.result
        IN  /\ r.is_anomaly = (r.zscore_result.is_anomaly \/ r.iforest_result.is_anomaly)
            /\ ("Z-score" \in NomsMethodes(r)) = r.zscore_result.is_anomaly
            /\ ("Isolation Forest" \in NomsMethodes(r)) = r.iforest_result.is_anomaly
            /\ NomsMethodes(r) \subseteq {"Z-score", "Isolation Forest"}

\* C4, its case: one detector alone fires and the reading is an anomaly
C4_Temoin ==
    /\ dernier.exc = ""
    /\ dernier.result.zscore_result.is_anomaly
    /\ ~dernier.result.iforest_result.is_anomaly
    /\ dernier.result.iforest_result.details = ""
    /\ dernier.result.is_anomaly

\* C5: in the result of every call and in every history entry,
\* detection_methods is non-empty exactly when is_anomaly is true, and status
\* is "ANOMALIE" exactly when is_anomaly is true and "NORMAL" otherwise.
C5_MethodesEtStatut ==
    /\ dernier.exc = "" =>
          (dernier.result.detection_methods # <<>>) = dernier.result.is_anomaly
    /\ \A i \in 1..Len(historique) :
          /\ (historique[i].detection_methods # "") = historique[i].is_anomaly
          /\ (historique[i].status = "ANOMALIE") = historique[i].is_anomaly
          /\ (historique[i].status = "NORMAL") = ~historique[i].is_anomaly

\* C5, its case: an entry flagged by the ensemble detector alone, next to a
\* normal entry
C5_Temoin ==
    /\ Len(historique) >= 2
    /\ historique[Len(historique)].detection_methods = "Isolation Forest"
    /\ historique[Len(historique)].status = "ANOMALIE"
    /\ historique[1].status = "NORMAL"

\* C6: while fewer than 10 readings have been observed, the z-score
\* detector answers "insufficient data", not anomalous, for the reading
\* ingested and for any temperature and humidity handed to it.
C6_ZscoreEchauffement ==
    nb_appels < 10 =>
        /\ (nb_appels >= 1 /\ dernier.exc = "") =>
              dernier.result.zscore_result = Insuffisant("zscore")
        /\ \A t \in Grandeurs, h \in Grandeurs :
              detecter_zscore(stats, t, h) = Insuffisant("zscore")

\* C6, its case: the 9th reading, far off the eight before it
C6_Temoin ==
    /\ nb_appels = 9
    /\ stats.count = 9
    /\ dernier.exc = ""
    /\ dernier.donnee.temperature = temperature_moyenne + 16
    /\ \A i \in 1..8 : Nominale(flux[i].donnee)

ToutesIssues == {"normal", "anomalie", "ValueError"}

\* C7: while the window holds fewer than 20 readings, the reading just
\* inserted included, the ensemble detector answers "insufficient data", not
\* anomalous, whatever the input, and self.model is still None.
C7_ForetEchauffement ==
    Len(buffer_donnees) < 20 =>
        /\ model = ModelNone
        /\ dernier.exc = "" =>
              dernier.result.iforest_result = Insuffisant("isolation_forest")
        /\ \A issue \in ToutesIssues :
              /\ detecter_isolation_forest(buffer_donnees, model, issue).result
                    = Insuffisant("isolation_forest")
              /\ detecter_isolation_forest(buffer_donnees, model, issue).model = ModelNone

\* C7, its case: the 19th reading, off the baseline, in a window of 19
C7_Temoin ==
    /\ Len(buffer_donnees) = 19
    /\ dernier.exc = ""
    /\ ~Nominale(dernier.donnee)
    /\ model = ModelNone

\* every call so far was handed the same temperature and the same humidity
FluxConstant ==
    \A i \in 1..Len(flux) :
        /\ Valide(flux[i].donnee)
        /\ flux[i].donnee.temperature = flux[1].donnee.temperature
        /\ flux[i].donnee.humidity = flux[1].donnee.humidity

\* C8: the z-score is 0 whenever the tracked standard deviation is 0, for
\* any input value; and a stream whose readings all carry the same
\* temperature and the same humidity is never flagged by the z-score
\* detector, at any length.
C8_EcartTypeNul ==
    /\ \A v \in Grandeurs :
          /\ EstZero(stats.std_temp) =>
                calculer_zscore(v, stats.mean_temp, stats.std_temp) = ZNul
          /\ EstZero(stats.std_hum) =>
                calculer_zscore(v, stats.mean_hum, stats.std_hum) = ZNul
    /\ (Len(flux) >= 1 /\ FluxConstant) =>
          /\ dernier.exc = ""
          /\ ~dernier.result.zscore_result.is_anomaly
          /\ \A i \in 1..Len(historique) : historique[i].detection_methods # "Z-score"

\* C8, its case: ten equal readings, the detector past its warm-up and the
\* tracked deviations at 0
C8_Temoin ==
    /\ Len(flux) >= 10
    /\ FluxConstant
    /\ stats.count >= 10
    /\ EstZero(stats.std_temp) /\ EstZero(stats.std_hum)
    /\ dernier.result.zscore_result.details = ""

\* |z| > seuil for value v against the n values of sum s and sum of squares
\* q, from z = (v - s/n) / sqrt((q - s^2/n) / (n - 1)):
\* z^2 = (n*v - s)^2 * (n - 1) / (n * (n*q - s^2))
Depasse(v, col, seuil) ==
    /\ col.n >= 2
    /\ col.n * col.carres # col.somme * col.somme
    /\ (col.n * v - col.somme) * (col.n * v - col.somme) * (col.n - 1)
          > seuil * seuil * col.n * (col.n * col.carres - col.somme * col.somme)

\* what the z-score verdict on <<t, h>> must be against a window whose
\* columns are temp and hum
VerdictAttendu(t, h, temp, hum) == Depasse(t, temp, 3) \/ Depasse(h, hum, 3)

SondesTemperature == {temperature_moyenne, 38, 39, 100}
SondesHumidite == {humidite_moyenne, 100}

SeuilStrict(temp, hum) ==
    /\ dernier.exc = "" =>
          dernier.result.zscore_result.is_anomaly
             = VerdictAttendu(dernier.donnee.temperature, dernier.donnee.humidity,
                              temp, hum)
    /\ \A t \in SondesTemperature, h \in SondesHumidite :
          detecter_zscore(stats, t, h).is_anomaly = VerdictAttendu(t, h, temp, hum)

\* C9: past the warm-up, the z-score detector flags a reading exactly when
\* |z_temperature| > 3 or |z_humidity| > 3, strictly: a deviation of exactly
\* 3 standard deviations is not flagged, and one dimension is enough.  Of
\* the reading just ingested, and of any values handed to the detector.
C9_SeuilStrict ==
    stats.count >= 10 =>
        SeuilStrict(Colonne(buffer_donnees, "temperature", Len(buffer_donnees)),
                    Colonne(buffer_donnees, "humidity", Len(buffer_donnees)))

\* C9, its case: 15 readings at 25 and one at 41 give mean 26 and standard
\* deviation 4; a temperature of 38 lies at exactly 3 standard deviations and
\* is not flagged, 39 is, and so is a humidity off a window of equal ones
\* only through the temperature
C9_Temoin ==
    /\ stats.count = 16
    /\ stats.mean_temp = Rat(26 * 16, 16)
    /\ detecter_zscore(stats, 38, humidite_moyenne).z_temperature.den > 0
    /\ detecter_zscore(stats, 38, humidite_moyenne).z_temperature.num
          = 9 * detecter_zscore(stats, 38, humidite_moyenne).z_temperature.den
    /\ ~detecter_zscore(stats, 38, humidite_moyenne).is_anomaly
    /\ detecter_zscore(stats, 39, humidite_moyenne).is_anomaly

Retourne(appel) == appel.exc = ""

\* the readings of the calls that returned, in call order
Retournes(f) ==
    LET r == SelectSeq(f, Retourne) IN [i \in 1..Len(r) |-> r[i].donnee]

\* the original fields of the ledger entries, in ledger order
Origines(h) == [i \in 1..Len(h) |-> Origine(h[i])]

\* C10: when the MongoDB sink fails or is unavailable during a call, the
\* call still returns its result, the enriched reading is in the history
\* (and in the anomalies when anomalous), the later readings are ingested
\* as usual and no ledger entry is taken back: the history holds one entry
\* per call that returned, in call order.
C10_PanneSansEffet ==
    /\ \A i \in 1..Len(flux) :
          (Valide(flux[i].donnee) /\ flux[i].sauvegarde \in {"echec", "absent"})
             => flux[i].exc = ""
    /\ Origines(historique) = Retournes(flux)
    /\ anomalies = SelectSeq(historique, EstAnomalie)
    /\ dernier.sauvegarde \in {"echec", "absent"} =>
          /\ dernier.exc = ""
          /\ historique # <<>>
          /\ historique[Len(historique)] = Enrichir(dernier.donnee, dernier.result)
          /\ dernier.result.is_anomaly =>
                (anomalies # <<>> /\ anomalies[Len(anomalies)] = historique[Len(historique)])

\* C10, its case: the insert failed on an anomalous reading; and an insert
\* failed earlier in a stream that went on
C10_Temoin ==
    /\ mongodb_db = "db"
    /\ dernier.sauvegarde = "echec"
    /\ dernier.result.is_anomaly
    /\ Len(collection) = Len(historique) - 1

\* C11: the alert sink is invoked only for readings whose temperature crosses
\* an operational threshold: every call of envoyer_alerte made by
\* traiter_mesure, traiter_anomalie or alerte_anomalie is for a temperature
\* above seuil_temperature_haute or below seuil_temperature_basse.
C11_AlerteHorsSeuils ==
    \A i \in 1..Len(cloud.alertes) :
        \/ cloud.alertes[i].temperature > seuil_temperature_haute
        \/ cloud.alertes[i].temperature < seuil_temperature_basse

\* C12: within one ajouter_donnee call the order is window insert, statistics,
\* detection, ledger append: after a call that returned, the reading is the
\* last of the window, the stats are those of the window that holds it, its
\* z-score verdict is the one taken on these stats, the forest was trained
\* on the window that holds it, and the ledger ends with its verdict.
C12_ClasseApresInsertion ==
    (nb_appels > 0 /\ dernier.exc = "") =>
        LET n == Len(buffer_donnees)
            d == dernier.donnee
        IN  /\ buffer_donnees[n] = d
            /\ stats = mettre_a_jour_stats(buffer_donnees, stats).stats
            /\ dernier.result.zscore_result = detecter_zscore(stats, d.temperature, d.humidity)
            /\ n >= IForestMin =>
                  model = [etat |-> "fitted", X |-> Matrice(buffer_donnees)]
            /\ historique[Len(historique)] = Enrichir(d, dernier.result)

\* C12, its case: the twentieth reading is off the baseline; the window
\* before it had a zero deviation, under which no reading is flagged, and the
\* reading is flagged on the stats that include it, the forest being trained
C12_Temoin ==
    /\ nb_appels = IForestMin
    /\ buffer_taille > IForestMin
    /\ dernier.exc = ""
    /\ model.etat = "fitted"
    /\ dernier.result.zscore_result.is_anomaly
    /\ LET avant == SubSeq(buffer_donnees, 1, Len(buffer_donnees) - 1)
       IN  ~detecter_zscore(mettre_a_jour_stats(avant, StatsInit).stats,
                            dernier.donnee.temperature,
                            dernier.donnee.humidity).is_anomaly

\* C13: after every insertion the running statistics reflect the current
\* window: stats.count equals the window length after each ajouter_donnee,
\* the first included, and from two readings on the means and the standard
\* deviations are those of the full window contents.
C13_StatsRefletentFenetre ==
    nb_appels > 0 =>
        LET n == Len(buffer_donnees)
            temp == Colonne(buffer_donnees, "temperature", n)
            hum == Colonne(buffer_donnees, "humidity", n)
        IN  /\ stats.count = n
            /\ (n >= 2 /\ dernier.exc = "") =>
                  /\ stats.mean_temp = Moyenne(temp)
                  /\ stats.std_temp = EcartType(temp)
                  /\ stats.mean_hum = Moyenne(hum)
                  /\ stats.std_hum = EcartType(hum)

\* the calls that returned, by their place in the stream
Reussis == {i \in 1..Len(flux) : Retourne(flux[i])}

\* C16: every successfully ingested reading produces exactly one history
\* entry, in arrival order, carrying its original fields: the history is as
\* long as the number of ajouter_donnee calls that returned, its entries are
\* the readings of these calls in call order, with no deduplication and no
\* reordering by timestamp, and a reading handed in twice is twice in the
\* window.
C16_UneEntreeParLecture ==
    /\ Len(historique) = Cardinality(Reussis)
    /\ Origines(historique) = Retournes(flux)
    /\ \A i \in 1..Len(buffer_donnees) :
          buffer_donnees[i] = flux[Len(flux) - Len(buffer_donnees) + i].donnee

\* C16, its case: the first reading of the stream came again after later
\* ones and sits in the history after them, under its older timestamp, the
\* window holding both copies
C16_Temoin ==
    /\ Len(historique) > 2
    /\ dernier.exc = ""
    /\ historique[Len(historique)].timestamp < historique[Len(historique) - 1].timestamp
    /\ Origine(historique[Len(historique)]) = Origine(historique[1])
    /\ buffer_donnees[1] = buffer_donnees[Len(buffer_donnees)]

\* s is a prefix of t
Prefixe(s, t) == Len(s) <= Len(t) /\ SubSeq(t, 1, Len(s)) = s

\* C15: the ledger is append-only: across any step of any operation (ingest
\* with its persistence, CSV export, graph generation, stats display) the
\* previous history and anomalies are prefixes of the new ones, and the sink
\* leaves the entry as it was appended: no ledger entry holds the field the
\* insert adds to its document.
C15_LedgerAjoutSeul ==
    [][/\ Prefixe(historique, historique')
       /\ Prefixe(anomalies, anomalies')
       /\ \A i \in 1..Len(historique') : "_id" \notin DOMAIN historique'[i]
       /\ \A i \in 1..Len(anomalies') : "_id" \notin DOMAIN anomalies'[i]]_vars

\* C15, its case: the ledger holds an anomaly that the sink has stored, and
\* both files and the graph were written
C15_Temoin ==
    /\ anomalies # <<>>
    /\ collection # <<>>
    /\ "_id" \in DOMAIN collection[Len(collection)]
    /\ collection[Len(collection)].timestamp = anomalies[Len(anomalies)].timestamp
    /\ fichiers.ecrits = {"historique.csv", "anomalies.csv", "graphique_anomalies.png"}

\* C17: export is idempotent and read-only: a step that changes the files
\* leaves the window, the stats, the model and the ledger unchanged, and a
\* sauvegarder_csv call that follows another with no ajouter_donnee in
\* between leaves both files with the rows they had.
C17_ExportIdempotent ==
    [][/\ fichiers' # fichiers => UNCHANGED detecteur
       /\ (fichiers.export_a = nb_appels /\ nb_appels' = nb_appels) =>
             /\ fichiers'.historique = fichiers.historique
             /\ fichiers'.anomalies = fichiers.anomalies]_vars

\* C17, its case: two sauvegarder_csv calls in a row on a ledger that holds
\* anomalies, both files written
C17_Temoin ==
    /\ fichiers.repete
    /\ fichiers.export_a = nb_appels
    /\ anomalies # <<>>
    /\ fichiers.historique = Csv(historique)
    /\ fichiers.anomalies = Csv(anomalies)

\* the readings among the delivered ones that hold both fields
Valides(livres) == SelectSeq(livres, Valide)

\* all but the last
SaufDernier(livres) == SubSeq(livres, 1, Len(livres) - 1)

\* the last `taille` elements
Fenetre(livres, taille) ==
    IF Len(livres) <= taille THEN livres
    ELSE SubSeq(livres, Len(livres) - taille + 1, Len(livres))

\* window and history are those of the stream `livres`
Traite(livres) ==
    /\ buffer_donnees = Fenetre(livres, buffer_taille)
    /\ Origines(historique) = Valides(livres)

\* C14: in the MQTT receiver the readings are processed one at a time and in
\* delivery order: a message is handed to on_message only when the previous
\* call has returned, and at every statement the window and the history are
\* those of the delivered messages in delivery order, the message in
\* progress being the only one that may be part way through its steps.
C14_UnParUn ==
    [][/\ Len(recepteur'.livres) > Len(recepteur.livres) => recepteur.pc = "attente"
       /\ LET r == recepteur'
              l == r.livres
          IN  /\ r.pc = "inserer" =>
                    /\ buffer_donnees' = Fenetre(SaufDernier(l), buffer_taille)
                    /\ Origines(historique') = Valides(SaufDernier(l))
              /\ r.pc \in {"stats", "detecter", "historique"} =>
                    /\ buffer_donnees' = Fenetre(l, buffer_taille)
                    /\ Origines(historique') = Valides(SaufDernier(l))
              /\ r.pc \in {"mongodb", "anomalies", "periodique", "attente"} =>
                    /\ buffer_donnees' = Fenetre(l, buffer_taille)
                    /\ Origines(historique') = Valides(l)
              /\ r.pc \in {"arret", "finally", "fini"} =>
                    /\ buffer_donnees' \in {Fenetre(l, buffer_taille),
                                            Fenetre(SaufDernier(l), buffer_taille)}
                    /\ Origines(historique') \in {Valides(l), Valides(SaufDernier(l))}]_vars

\* C14, its case: every message of the run was handled, one of them lacking
\* a field and a later one being recorded as an anomaly
C14_Temoin ==
    /\ recepteur.pc = "attente"
    /\ recepteur.compteur_messages = MaxMessages
    /\ Len(historique) = MaxMessages - 1
    /\ anomalies # <<>>
    /\ Traite(recepteur.livres)

LigneAnomalie(ligne) == ligne.is_anomaly = "True"

\* C18: an export never yields a corrupted view: the rows of historique.csv
\* are a prefix of the in-memory history and, both files being written, the
\* rows of anomalies.csv are exactly the anomalous rows of historique.csv:
\* the two files describe the same ledger state.
C18_ExportCoherent ==
    /\ "historique.csv" \in fichiers.ecrits =>
          Prefixe(fichiers.historique, Csv(historique))
    /\ {"historique.csv", "anomalies.csv"} \subseteq fichiers.ecrits =>
          fichiers.anomalies = SelectSeq(fichiers.historique, LigneAnomalie)

\* a window without the sensor ids
SansCapteur(buf) ==
    [i \in 1..Len(buf) |-> [timestamp |-> buf[i].timestamp, champs |-> buf[i].champs,
                             temperature |-> buf[i].temperature,
                             humidity |-> buf[i].humidity]]

\* C19: the window, the statistics and the verdicts do not depend on sensor
\* identity: two streams equal except for the sensor_id of their readings
\* give, after every reading, the same window positions, the same running
\* stats, the same model and the same result (is_anomaly, detection_methods
\* and both detectors' verdicts).
C19_SansIdentite ==
    jumeau.mode = "capteur" =>
        /\ SansCapteur(buffer_donnees) = SansCapteur(jumeau.buffer_donnees)
        /\ stats = jumeau.stats
        /\ model = jumeau.model
        /\ nb_appels > 0 => (dernier.exc = jumeau.exc /\ dernier.result = jumeau.result)

\* C19, its case: the window mixes the three sensors in one stream and holds
\* one sensor in the other, the forest is fitted, and the latest reading is
\* flagged by the z-score
C19_Temoin ==
    /\ jumeau.mode = "capteur"
    /\ model.etat = "fitted"
    /\ {buffer_donnees[i].sensor_id : i \in 1..Len(buffer_donnees)}
          = {sensor_ids[i] : i \in 1..Len(sensor_ids)}
    /\ \A i \in 1..Len(jumeau.buffer_donnees) : jumeau.buffer_donnees[i].sensor_id = "C001"
    /\ dernier.result.zscore_result.is_anomaly
    /\ jumeau.result.zscore_result.is_anomaly

\* C20: once the window holds IForestMin readings the ensemble model is
\* rebuilt from scratch on every insertion: two detectors that reach the
\* same window contents by different earlier histories hold the same model
\* and give the same ensemble verdict for the same new reading.
C20_SansMemoire ==
    (/\ jumeau.mode = "passe"
     /\ Len(buffer_donnees) >= IForestMin
     /\ Matrice(buffer_donnees) = Matrice(jumeau.buffer_donnees)) =>
        /\ model = [etat |-> "fitted", X |-> Matrice(buffer_donnees)]
        /\ jumeau.model = model
        /\ dernier.result.iforest_result = jumeau.result.iforest_result

\* C20, its case: the two detectors answered differently while their windows
\* differed, and now hold the same window, on which the forest flags the
\* latest reading
C20_Temoin ==
    /\ jumeau.mode = "passe"
    /\ jumeau.ecart
    /\ nb_appels > IForestMin
    /\ Matrice(buffer_donnees) = Matrice(jumeau.buffer_donnees)
    /\ dernier.result.iforest_result.is_anomaly
    /\ jumeau.result.iforest_result.is_anomaly

\* C21: after fifteen readings whose temperature alternates between 24.8
\* and 25.2 with a constant humidity, a sixteenth reading at 40.0 is flagged
\* by the z-score detector, the ensemble detector reports insufficient data,
\* and detection_methods names the z-score detector only.
C21_Alternance ==
    nb_appels = Alternance.longueur + 1 =>
        /\ dernier.exc = ""
        /\ dernier.result.zscore_result.is_anomaly
        /\ dernier.result.zscore_result.details = ""
        /\ dernier.result.iforest_result = Insuffisant("isolation_forest")
        /\ dernier.result.is_anomaly
        /\ dernier.result.detection_methods = <<"Z-score">>
        /\ historique[nb_appels].detection_methods = "Z-score"

\* C21, its case: the sixteenth reading at 40.0 has been ingested after the
\* alternation and is the only anomaly recorded
C21_Temoin ==
    /\ nb_appels = Alternance.longueur + 1
    /\ dernier.donnee.temperature = Alternance.pic
    /\ buffer_donnees[1].temperature = Alternance.bas
    /\ buffer_donnees[Alternance.longueur].temperature = Alternance.bas
    /\ stats.count = Alternance.longueur + 1
    /\ Len(anomalies) = 1
    /\ anomalies[1].timestamp = Alternance.longueur + 1

\* C22: the detection methods in the result returned by ajouter_donnee are
\* those recorded in the reading's history entry, handed to the persistence
\* sink, shown in the receiver's notice, and shown in the alert message that
\* CloudManager.traiter_anomalie sends for the anomaly.  The last part is
\* stated here: every alert sent for an anomaly shows the detection methods
\* of the anomaly entry it was sent for.
C22_ProvenanceAlerte ==
    \A i \in 1..Len(cloud.alertes) :
        (cloud.alertes[i].service = "AlerteService"
         /\ cloud.alertes[i].sujet = "Anomalie détectée") =>
            /\ "detection_methods" \in DOMAIN cloud.alertes[i].message
            /\ cloud.alertes[i].message.detection_methods
                  = Anomalie(cloud.alertes[i].message.timestamp,
                             cloud.alertes[i].temperature).detection_methods

\* C23: the z-score warm-up is governed by the total number of readings
\* observed: the k-th reading ingested is answered "insufficient data" by
\* the z-score detector exactly when k < 10, for every window capacity,
\* also a capacity below 10.
C23_EchauffementTotal ==
    (nb_appels >= 1 /\ dernier.exc = "") =>
        ((dernier.result.zscore_result = Insuffisant("zscore"))
            <=> (nb_appels < ZscoreMin))

\* C24: on_message never propagates an exception: an undecodable payload, a
\* JSON value that is not an object, a reading with missing fields, a failure
\* inside detection or export is caught and reported; and every later valid
\* message is still ingested and appended to the history: when on_message
\* has returned from a valid reading, the last history entry is that reading.
C24_FluxJamaisArrete ==
    (/\ recepteur.pc = "attente"
     /\ recepteur.compteur_messages >= 1
     /\ recepteur.livres # <<>>
     /\ recepteur.erreur \notin {"JSONDecodeError", "AttributeError"}
     /\ Valide(recepteur.payload)) =>
        /\ recepteur.erreur \in {"", "OSError"}
        /\ historique # <<>>
        /\ Origine(historique[Len(historique)]) = recepteur.payload

\* C25: whenever on_message has finished a message whose counter value is a
\* multiple of 10, the complete in-memory history has been exported; and
\* after any on_message call the exported history lags the in-memory history
\* by 9 readings at most.
C25_ExportPeriodique ==
    (recepteur.pc = "attente" /\ recepteur.compteur_messages >= 1) =>
        /\ recepteur.compteur_messages % SauvegardeTous = 0 =>
              fichiers.historique = Csv(historique)
        /\ Len(historique) - Len(fichiers.historique) <= SauvegardeTous - 1

\* C26: for a measure that holds a temperature, traiter_mesure sends exactly
\* one alert when the temperature is above 35 (level critical) or below 10
\* (level warning) and none when it lies in [10, 35]; the humidity never
\* triggers an alert; and the caller's dict is as it was when the call
\* returns (the store is handed a copy).
C26_UneAlerteParMesure ==
    [][(/\ cloud'.appel = "traiter_mesure"
        /\ cloud'.nb_appels = cloud.nb_appels + 1
        /\ "temperature" \in cloud'.entree.champs) =>
          LET t == cloud'.entree.temperature
              n == Len(cloud.alertes)
          IN  /\ t > seuil_temperature_haute =>
                    /\ Len(cloud'.alertes) = n + 1
                    /\ SubSeq(cloud'.alertes, 1, n) = cloud.alertes
                    /\ cloud'.alertes[n + 1].niveau = "critical"
                    /\ cloud'.alertes[n + 1].temperature = t
              /\ t < seuil_temperature_basse =>
                    /\ Len(cloud'.alertes) = n + 1
                    /\ SubSeq(cloud'.alertes, 1, n) = cloud.alertes
                    /\ cloud'.alertes[n + 1].niveau = "warning"
                    /\ cloud'.alertes[n + 1].temperature = t
              /\ (t >= seuil_temperature_basse /\ t <= seuil_temperature_haute) =>
                    cloud'.alertes = cloud.alertes
              /\ cloud'.apres = cloud'.entree]_vars

\* C26, its case: a measure at 36 degrees with a humidity past its own
\* threshold, on a connected store, gave one critical alert and a stamped
\* document in the store, after a measure at 35 degrees with the same
\* humidity gave none
C26_Temoin ==
    /\ cloud.appel = "traiter_mesure"
    /\ cloud.connected
    /\ cloud.nb_appels = 2
    /\ cloud.entree.temperature = seuil_temperature_haute + 1
    /\ cloud.entree.humidity = seuil_humidite_haute + 1
    /\ Len(cloud.mesures) = 2
    /\ cloud.mesures[1].temperature = seuil_temperature_haute
    /\ cloud.mesures[1].humidity = seuil_humidite_haute + 1
    /\ "_created_at" \in DOMAIN cloud.mesures[2]
    /\ "_created_at" \notin DOMAIN cloud.apres
    /\ Len(cloud.alertes) = 1
    /\ cloud.alertes[1].niveau = "critical"

\* z^2 <= (n - 1)^2 / n, for a z-score held by its square
AuPlusBorne(z, n) == z.nan \/ z.num * n <= (n - 1) * (n - 1) * z.den

\* C27: the z-score of a reading against stats that include it is bounded:
\* with n readings in the window, |z| <= (n - 1) / sqrt(n).  With the
\* threshold 3.0 the z-score detector therefore never flags a reading while
\* the window holds 10 readings or fewer; the 11th reading is the earliest
\* it can flag.
C27_BorneZscore ==
    (jumeau.mode = "classee" /\ Len(jumeau.buffer_donnees) >= 2) =>
        LET n == Len(jumeau.buffer_donnees)
            donnee == jumeau.buffer_donnees[n]
            z_temp == calculer_zscore(donnee.temperature, jumeau.stats.mean_temp,
                                      jumeau.stats.std_temp)
            z_hum == calculer_zscore(donnee.humidity, jumeau.stats.mean_hum,
                                     jumeau.stats.std_hum)
        IN  /\ jumeau.exc = ""
            /\ jumeau.stats.count = n
            /\ AuPlusBorne(z_temp, n)
            /\ AuPlusBorne(z_hum, n)
            /\ n <= ZscoreMin =>
                  /\ ~AbsSuperieur(z_temp, zscore_seuil)
                  /\ ~AbsSuperieur(z_hum, zscore_seuil)
                  /\ ~jumeau.result.zscore_result.is_anomaly
            /\ jumeau.result.zscore_result.is_anomaly => n >= ZscoreMin + 1

\* C27, its case: the 11th reading, alone of its kind after ten equal
\* readings, reaches the bound and is flagged
C27_Temoin ==
    /\ jumeau.mode = "classee"
    /\ Len(jumeau.buffer_donnees) = ZscoreMin + 1
    /\ jumeau.result.zscore_result.is_anomaly
    /\ jumeau.result.zscore_result.z_temperature.num * (ZscoreMin + 1)
          = ZscoreMin * ZscoreMin * jumeau.result.zscore_result.z_temperature.den
    /\ jumeau.result.zscore_result.z_temperature.num > 0

C29_Libelles ==
    dashboard.affiche =>
        \A i \in 1..Len(dashboard.alertes) :
            LET temp == dashboard.alertes[i].temperature
            IN  dashboard.alertes[i].alert_type =
                    IF temp = 0 THEN "VALEUR NULLE"
                    ELSE IF temp > alerte_surchauffe THEN "SURCHAUFFE"
                    ELSE IF temp < alerte_sous_temperature THEN "SOUS-TEMPÉRATURE"
                    ELSE "ANOMALIE"

\* the store is not connected: never connected, connection failed, or closed
HorsService(cl) == ~cl.connected \/ cl.client = "ferme"

\* C30: a disabled or disconnected sink degrades without failing.  When the
\* store is not connected (never connected, connection failed, or after
\* close), sauvegarder_mesure and sauvegarder_anomalie return False and store
\* nothing, get_mesures_recentes and get_anomalies return []; with no API key
\* AlerteService.envoyer_alerte returns False and sends nothing; in
\* simulation mode EmailService.envoyer_alerte returns False and sends
\* nothing.
C30_PuitsInactifs ==
    [][cloud'.nb_appels = cloud.nb_appels + 1 =>
          /\ (cloud'.appel \in {"sauvegarder_mesure", "sauvegarder_anomalie"}
              /\ HorsService(cloud)) =>
                /\ cloud'.retour = "False"
                /\ cloud'.mesures = cloud.mesures
                /\ cloud'.anomalies = cloud.anomalies
          /\ (cloud'.appel \in {"get_mesures_recentes", "get_anomalies"}
              /\ HorsService(cloud)) =>
                /\ cloud'.retour = "liste"
                /\ cloud'.lus = <<>>
          /\ (cloud'.appel = "AlerteService.envoyer_alerte" /\ ~cloud.enabled) =>
                /\ cloud'.retour = "False"
                /\ cloud'.alertes[Len(cloud'.alertes)].canal = "simulation"
          /\ (cloud'.appel = "EmailService.envoyer_alerte"
              /\ cloud.mode = "simulation") =>
                /\ cloud'.retour = "False"
                /\ cloud'.alertes[Len(cloud'.alertes)].canal = "simulation"]_vars

\* C30, its case: a connected store took a document, was closed, and then
\* refused the next one
C30_Temoin ==
    /\ cloud.appel = "sauvegarder_mesure"
    /\ cloud.client = "ferme"
    /\ ~cloud.connected
    /\ cloud.retour = "False"
    /\ cloud.nb_appels = 3
    /\ Len(cloud.mesures) = 1

====================================================================
